---- MODULE Spec2Model ----
(***************************************************************************)
(* Model of the deterministic criteria evaluator of the policy             *)
(* digitalization core (backend/policy_digitalization/evaluator.py).       *)
(*                                                                         *)
(* Strings are TLA+ strings; Python's substring test, lower(), upper(),    *)
(* replace() and split() are computed character by character.  Python's    *)
(* None is the empty tuple None; a dynamically typed value (a threshold)   *)
(* is a record [t, v] that carries its Python type.                        *)
(***************************************************************************)
EXTENDS Integers, Sequences, FiniteSets, TLC

VARIABLES
    verdicts,      \* _combine_verdicts: the list of child verdicts
    operator,      \* _combine_verdicts: the group's operator
    negated,       \* _combine_verdicts: the group's negated flag
    combined,      \* _combine_verdicts: the returned verdict, "pending" before the call
    criterion,     \* evaluate_criterion: the criterion
    evaluation,    \* evaluate_criterion: the returned CriterionEvaluation, None before
    patient,       \* the NormalizedPatientData of the running call
    policy,        \* the DigitizedPolicy of the running call
    pc,            \* position of the running evaluate_group / evaluate_policy call
    stack,         \* frames of the evaluate_group invocations past the cycle check
    visited,       \* the _visited set shared by the invocations of one recursion
    ret,           \* GroupEvaluation returned by the outermost evaluate_group, None before
    ind,           \* evaluate_policy: index of the indication the loop is at
    indication_evaluations,  \* evaluate_policy: the list built by the indication loop
    result,        \* PolicyEvaluationResult returned by evaluate_policy, None before
    maxDepth,      \* history: deepest nesting of evaluate_group invocations in this call
    steps,         \* history: steps taken by the running call
    calls,         \* history: number of evaluate_policy calls started
    seen,          \* history: the results evaluate_policy returned, per patient
    step_therapy_result, \* the dict returned by evaluate_step_therapy, None before
    rows,          \* the committed PolicyCacheModel rows of the database
    clock,         \* logical time: orders utcnow() values and makes uuid4() values fresh
    reply,         \* what the last repository or pipeline call returned or raised
    stored,        \* history: per normalized key, the policy last stored and not invalidated
    raw,           \* digitalize_policy: the RawExtractionResult of Pass 1, None before
    validated,     \* digitalize_policy: the ValidatedExtractionResult of Pass 2, None before
    skip_validation,  \* digitalize_policy: its skip_validation argument
    invoked,       \* history: the collaborators digitalize_policy awaited, in order
    sessions,      \* the get_db() session of each running store or load call
    request,       \* get_or_digitalize: its payer_name and medication_name arguments
    files,         \* the files of data/policies the request's paths name
    opened,        \* history: the files get_or_digitalize opened, in order
    phase,         \* get_or_digitalize: the await the call is at
    analysis,      \* analyze_impact: its diff, old_policy, new_policy, active_cases arguments
    case_index,    \* analyze_impact: index of the case the loop is at
    patient_impacts,  \* analyze_impact: the list built by the case loop
    verdict_flips, \* analyze_impact: its verdict_flips counter
    at_risk,       \* analyze_impact: its at_risk counter
    evaluated_count,  \* analyze_impact: its evaluated_count counter
    report,        \* the PolicyImpactReport analyze_impact returned, None before
    task_category, \* LLMGateway.generate: its task_category argument
    provider_index,   \* LLMGateway.generate: index of the provider the loop is at
    last_error,    \* LLMGateway.generate: its last_error local
    attempts,      \* history: the providers generate called, in order, with what came back
    clients        \* LLMGateway: the providers whose lazily loaded client exists

combineVars == <<verdicts, operator, negated, combined>>
criterionVars == <<criterion, evaluation>>
groupVars == <<stack, visited, ret, maxDepth>>
policyVars == <<ind, indication_evaluations, result, calls, seen>>
machineVars == <<patient, policy, pc, steps, groupVars, policyVars>>
stepVars == <<step_therapy_result>>
repoVars == <<rows, clock, reply, stored>>
pipeVars == <<raw, validated, skip_validation, invoked>>
sessVars == <<sessions>>
getVars == <<request, files, opened, phase>>
impactVars ==
    <<analysis, case_index, patient_impacts, verdict_flips, at_risk, evaluated_count, report>>
gatewayVars == <<task_category, provider_index, last_error, attempts, clients>>
backVars == <<impactVars, gatewayVars>>
frontVars == <<getVars, backVars>>
serviceVars == <<stepVars, repoVars, pipeVars, sessVars, frontVars>>
vars == <<combineVars, criterionVars, machineVars, serviceVars>>

None == <<>>

----------------------------------------------------------------------------
(* CriterionVerdict *)

MET == "met"
NOT_MET == "not_met"
INSUFFICIENT_DATA == "insufficient_data"
NOT_APPLICABLE == "not_applicable"
CriterionVerdict == {MET, NOT_MET, INSUFFICIENT_DATA, NOT_APPLICABLE}

LogicalOperator == {"AND", "OR", "NOT"}

----------------------------------------------------------------------------
(* Sequence helpers *)

Range(s) == {s[i] : i \in DOMAIN s}

RECURSIVE SeqsUpTo(_, _)
SeqsUpTo(S, n) ==
    IF n = 0 THEN {<<>>}
    ELSE LET shorter == SeqsUpTo(S, n - 1)
         IN shorter \cup {Append(s, x) : s \in {t \in shorter : Len(t) = n - 1}, x \in S}

----------------------------------------------------------------------------
(* Python strings *)

Char(s, i) == SubSeq(s, i, i)

\* a in b
IsSubstr(a, b) == \E i \in 1..(Len(b) - Len(a) + 1) : SubSeq(b, i, i + Len(a) - 1) = a

\* b.startswith(a)
StartsWith(b, a) == Len(a) <= Len(b) /\ SubSeq(b, 1, Len(a)) = a

UpperChars == "ABCDEFGHIJKLMNOPQRSTUVWXYZ"
LowerChars == "abcdefghijklmnopqrstuvwxyz"
DigitChars == "0123456789"

IndexIn(c, alphabet) ==
    IF \E i \in 1..Len(alphabet) : Char(alphabet, i) = c
    THEN CHOOSE i \in 1..Len(alphabet) : Char(alphabet, i) = c
    ELSE 0

RECURSIVE MapChars(_, _, _)
\* every character of s found in `from` replaced by the one at its place in `to`
MapChars(s, from, to) ==
    IF s = "" THEN ""
    ELSE LET Mapped(c, i) == IF i = 0 THEN c ELSE Char(to, i)
         IN Mapped(Char(s, 1), IndexIn(Char(s, 1), from))
            \o MapChars(SubSeq(s, 2, Len(s)), from, to)

RECURSIVE DropChar(_, _)
\* s.replace(c, "")
DropChar(s, c) ==
    IF s = "" THEN ""
    ELSE (IF Char(s, 1) = c THEN "" ELSE Char(s, 1)) \o DropChar(SubSeq(s, 2, Len(s)), c)

Lower(s) == MapChars(s, UpperChars, LowerChars)
Upper(s) == MapChars(s, LowerChars, UpperChars)

\* s.isalpha(), for the ASCII letters
IsAlpha(s) == s # "" /\ \A i \in 1..Len(s) : IndexIn(Char(s, i), UpperChars \o LowerChars) # 0

RECURSIVE SplitFrom(_, _)
\* s.split(): the maximal runs of non-space characters; cur is the run being read
SplitFrom(s, cur) ==
    IF s = "" THEN (IF cur = "" THEN <<>> ELSE <<cur>>)
    ELSE IF Char(s, 1) = " "
         THEN (IF cur = "" THEN <<>> ELSE <<cur>>) \o SplitFrom(SubSeq(s, 2, Len(s)), "")
         ELSE SplitFrom(SubSeq(s, 2, Len(s)), cur \o Char(s, 1))
Split(s) == SplitFrom(s, "")

RECURSIVE Join(_, _)
Join(ss, sep) ==
    IF ss = <<>> THEN ""
    ELSE IF Len(ss) = 1 THEN ss[1]
    ELSE ss[1] \o sep \o Join(Tail(ss), sep)

\* str(list of str): ['a', 'b']
PyListRepr(ss) == "[" \o Join([i \in DOMAIN ss |-> "'" \o ss[i] \o "'"], ", ") \o "]"

MapSeq(ss, F(_)) == [i \in DOMAIN ss |-> F(ss[i])]

----------------------------------------------------------------------------
(* Python values whose type is decided at run time *)

Num(n) == [t |-> "num", v |-> n]
Str(s) == [t |-> "str", v |-> s]
Bool(b) == [t |-> "bool", v |-> b]

\* bool(value)
Truthy(value) ==
    IF value = None THEN FALSE
    ELSE IF value.t = "num" THEN value.v # 0
    ELSE IF value.t = "str" THEN value.v # ""
    ELSE value.v

\* str(value)
PyStr(value) ==
    IF value = None THEN "None"
    ELSE IF value.t = "str" THEN value.v
    ELSE IF value.t = "bool" THEN (IF value.v THEN "True" ELSE "False")
    ELSE ToString(value.v)

RECURSIVE DigitsValue(_, _)
DigitsValue(s, acc) ==
    IF s = "" THEN acc
    ELSE DigitsValue(SubSeq(s, 2, Len(s)), 10 * acc + (IndexIn(Char(s, 1), DigitChars) - 1))

\* float(s) of a string: a run of decimal digits is its value; "nan" and "inf" parse but
\* are rejected by the caller's isnan/isinf test, any other text raises ValueError.
\* Signs, fractions, exponents and surrounding blanks are outside the modelled strings.
IsDigits(s) == s # "" /\ \A i \in 1..Len(s) : IndexIn(Char(s, i), DigitChars) # 0

_safe_float(value) ==
    IF value = None THEN None
    ELSE IF value.t = "bool" THEN None
    ELSE IF value.t = "num" THEN <<value.v>>
    ELSE IF IsDigits(value.v) THEN <<DigitsValue(value.v, 0)>>
    ELSE None

\* operator is None or a ComparisonOperator value; upper_bound is a run-time typed value
_compare_numeric(value, threshold, op, upper_bound) ==
    LET upper == _safe_float(upper_bound)
        targets == {threshold} \cup (IF upper = None THEN {} ELSE {upper[1]})
    IN IF op = None \/ op = <<"gte">> THEN value >= threshold
       ELSE IF op = <<"gt">> THEN value > threshold
       ELSE IF op = <<"lt">> THEN value < threshold
       ELSE IF op = <<"lte">> THEN value <= threshold
       ELSE IF op = <<"eq">> THEN value = threshold
       ELSE IF op = <<"neq">> THEN value # threshold
       ELSE IF op = <<"between">> THEN
            (IF upper = None THEN value >= threshold
             ELSE threshold <= value /\ value <= upper[1])
       ELSE IF op = <<"in">> THEN value \in targets
       ELSE IF op = <<"not_in">> THEN value \notin targets
       ELSE value >= threshold

----------------------------------------------------------------------------
(* CriterionEvaluation, and an exception leaving an evaluator *)

Raise(kind) == [tag |-> "raise", exception |-> kind]
IsRaise(r) == "exception" \in DOMAIN r

\* what a helper returns: Python's None, or an object
Nothing == [tag |-> "none"]
Just(x) == [tag |-> "some", value |-> x]

\* CriterionEvaluation(criterion_id, criterion_name, verdict, evidence, reasoning,
\* is_required); confidence keeps its default
MkEvaluation(c, verdict, evidence, reasoning) ==
    [criterion_id |-> c.criterion_id, criterion_name |-> c.name, verdict |-> verdict,
     confidence |-> 1, evidence |-> evidence, reasoning |-> reasoning,
     is_required |-> c.is_required]

\* `not x` of an optional string: None or ""
Falsy(opt) == opt = None \/ opt = <<"">>

\* index of the first element of seq that satisfies Test, 0 when there is none
FirstIndex(seq, Test(_)) ==
    LET First(hits) == IF hits = {} THEN 0 ELSE CHOOSE i \in hits : \A j \in hits : i <= j
    IN First({i \in DOMAIN seq : Test(seq[i])})

\* float printed by an f-string, for the whole numbers of the model
FloatStr(n) == ToString(n) \o ".0"
OpStr(c) == IF c.comparison_operator = None THEN "gte" ELSE c.comparison_operator[1]

----------------------------------------------------------------------------
(* _get_matched_treatment, _find_treatment_match, _find_lab_result, _find_screening *)

TreatmentMatches(c, tx) ==
    LET Matches(drug_names_lower, drug_classes_lower, desc_lower, name_lower,
                tx_name_lower, tx_class_lower) ==
            \/ tx_name_lower \in drug_names_lower
            \/ \E dn \in drug_names_lower :
                   IsSubstr(dn, tx_name_lower) \/ IsSubstr(tx_name_lower, dn)
            \/ tx_class_lower # "" /\ tx_class_lower \in drug_classes_lower
            \/ Len(tx_name_lower) >= 4
               /\ (IsSubstr(tx_name_lower, desc_lower) \/ IsSubstr(tx_name_lower, name_lower))
            \/ tx_class_lower # ""
               /\ \E keyword \in Range(Split(tx_class_lower)) :
                     Len(keyword) >= 4 /\ IsSubstr(keyword, desc_lower)
    IN Matches({Lower(c.drug_names[i]) : i \in DOMAIN c.drug_names},
               {Lower(c.drug_classes[i]) : i \in DOMAIN c.drug_classes},
               Lower(c.description[1]), Lower(c.name), Lower(tx.medication_name),
               IF tx.drug_class = None THEN "" ELSE Lower(tx.drug_class[1]))

\* Nothing, Just(treatment), or the AttributeError of description.lower() on None
_get_matched_treatment(c, p) ==
    IF c.description = None THEN Raise("AttributeError")
    ELSE LET Hit(tx) == TreatmentMatches(c, tx)
             Found(i) == IF i = 0 THEN Nothing ELSE Just(p.prior_treatments[i])
         IN Found(FirstIndex(p.prior_treatments, Hit))

\* _get_matched_treatment(...) is not None
_find_treatment_match(c, p) ==
    LET IsNotNone(tx) == IF IsRaise(tx) THEN tx ELSE Just(tx # Nothing)
    IN IsNotNone(_get_matched_treatment(c, p))

NoiseWords ==
    {"test", "level", "value", "result", "lab", "blood", "serum", "plasma",
     "the", "and", "for", "with"}

LabNameMatches(c, lab) ==
    LET Keywords(words) == {kw \in words : Len(kw) >= 4 /\ kw \notin NoiseWords}
        Matches(name_lower, desc_lower, lab_name_lower, name_words) ==
            \/ lab_name_lower = name_lower
            \/ Len(lab_name_lower) >= 4
               /\ (IsSubstr(lab_name_lower, name_lower) \/ IsSubstr(lab_name_lower, desc_lower))
            \/ Len(name_lower) >= 4 /\ IsSubstr(name_lower, lab_name_lower)
            \/ Len(lab_name_lower) < 4 /\ IsAlpha(lab_name_lower)
               /\ (lab_name_lower \in name_words
                   \/ lab_name_lower \in Range(Split(desc_lower)))
            \/ Keywords(name_words) \cap Range(Split(lab_name_lower)) # {}
    IN Matches(Lower(c.name), Lower(c.description[1]), Lower(lab.test_name),
               Range(Split(Lower(c.name))))

\* Nothing, Just(lab), or the AttributeError of description.lower() on None
_find_lab_result(c, p) ==
    LET criterion_loinc ==
            {c.clinical_codes[i].code :
                i \in {j \in DOMAIN c.clinical_codes : c.clinical_codes[j].system = "LOINC"}}
        ByLoinc(lab) ==
            lab.loinc_code # None /\ lab.loinc_code # <<"">> /\ lab.loinc_code[1] \in criterion_loinc
        ByName(lab) == LabNameMatches(c, lab)
        FoundByName(k) == IF k = 0 THEN Nothing ELSE Just(p.lab_results[k])
        Found(i) ==
            IF i # 0 THEN Just(p.lab_results[i])
            ELSE IF c.description = None THEN Raise("AttributeError")
            ELSE FoundByName(FirstIndex(p.lab_results, ByName))
    IN Found(FirstIndex(p.lab_results, ByLoinc))

ScreeningMatches(c, screening) ==
    LET Matches(combined_text, st_lower) ==
            \/ IsSubstr(st_lower, combined_text)
            \/ IsSubstr("tb", combined_text) /\ st_lower = "tb"
            \/ IsSubstr("tuberculosis", combined_text) /\ st_lower = "tb"
            \/ IsSubstr("hepatitis b", combined_text) /\ st_lower = "hepatitis_b"
            \/ IsSubstr("hepatitis c", combined_text) /\ st_lower = "hepatitis_c"
            \/ IsSubstr("hep b", combined_text) /\ st_lower = "hepatitis_b"
            \/ IsSubstr("hep c", combined_text) /\ st_lower = "hepatitis_c"
    IN Matches(Lower(c.name) \o " " \o Lower(c.description[1]),
               Lower(screening.screening_type))

\* Nothing, Just(screening), or the AttributeError of description.lower() on None
_find_screening(c, p) ==
    IF c.description = None THEN Raise("AttributeError")
    ELSE LET Hit(screening) == ScreeningMatches(c, screening)
             Found(i) == IF i = 0 THEN Nothing ELSE Just(p.completed_screenings[i])
         IN Found(FirstIndex(p.completed_screenings, Hit))

----------------------------------------------------------------------------
(* The registered evaluators *)

evaluate_age(c, p) ==
    IF p.age_years = None
    THEN MkEvaluation(c, INSUFFICIENT_DATA, <<>>, "Patient age not available")
    ELSE IF c.threshold_value = None
    THEN MkEvaluation(c, INSUFFICIENT_DATA, <<>>, "No threshold defined in criterion")
    ELSE LET Compare(age, threshold) ==
                 IF threshold = None
                 THEN MkEvaluation(c, INSUFFICIENT_DATA, <<>>,
                          "Non-numeric threshold value: " \o PyStr(c.threshold_value))
                 ELSE LET Verdict(met) ==
                              MkEvaluation(c, IF met THEN MET ELSE NOT_MET,
                                  <<"Patient age: " \o ToString(age) \o " years">>,
                                  "Age " \o ToString(age)
                                      \o (IF met THEN " meets " ELSE " does not meet ")
                                      \o OpStr(c) \o " " \o FloatStr(threshold[1]))
                      IN Verdict(_compare_numeric(age, threshold[1], c.comparison_operator,
                                                  c.threshold_value_upper))
         IN Compare(p.age_years[1], _safe_float(c.threshold_value))

evaluate_gender(c, p) ==
    IF Falsy(p.gender)
    THEN MkEvaluation(c, INSUFFICIENT_DATA, <<>>, "Patient gender not available")
    ELSE LET Allowed(from_values) ==
                 IF from_values = <<>> /\ Truthy(c.threshold_value)
                 THEN <<Lower(PyStr(c.threshold_value))>>
                 ELSE from_values
             Decide(allowed, met) ==
                 MkEvaluation(c, IF met THEN MET ELSE NOT_MET,
                     <<"Patient gender: " \o p.gender[1]>>,
                     "Gender '" \o p.gender[1] \o (IF met THEN "' is" ELSE "' is not")
                         \o " in allowed values " \o PyListRepr(allowed))
             Match(allowed) ==
                 Decide(allowed,
                        IF allowed # <<>> THEN Lower(p.gender[1]) \in Range(allowed) ELSE TRUE)
         IN Match(Allowed(MapSeq(c.allowed_values, Lower)))

NormCode(code) == DropChar(Upper(code), ".")

evaluate_diagnosis_confirmed(c, p) ==
    IF p.diagnosis_codes = <<>>
    THEN MkEvaluation(c, INSUFFICIENT_DATA, <<>>, "No diagnosis codes available")
    ELSE LET Hits(criterion_codes) ==
                 LET Covers(code, cc) ==
                         code = cc \/ StartsWith(code, cc) \/ StartsWith(cc, code)
                     CodeHit(pc_) == \E cc \in criterion_codes : Covers(NormCode(pc_), cc)
                 IN SelectSeq(p.diagnosis_codes, CodeHit)
             Decide(matched, evidence) ==
                 MkEvaluation(c, IF matched THEN MET ELSE NOT_MET, evidence,
                     "Diagnosis " \o (IF matched THEN "confirmed" ELSE "not confirmed")
                         \o " against criterion codes")
             Match(criterion_codes, hits) ==
                 IF criterion_codes = {}
                 THEN Decide(Len(p.diagnosis_codes) > 0,
                             <<"Patient has diagnosis codes: " \o PyListRepr(p.diagnosis_codes)>>)
                 ELSE Decide(hits # <<>>,
                             [i \in DOMAIN hits |->
                                 "Diagnosis " \o hits[i] \o " matches criterion code"])
             WithCodes(criterion_codes) == Match(criterion_codes, Hits(criterion_codes))
         IN WithCodes({NormCode(c.clinical_codes[i].code) : i \in DOMAIN c.clinical_codes})

Underscored(s) == MapChars(s, "- ", "__")

evaluate_diagnosis_severity(c, p) ==
    IF Falsy(p.disease_severity)
    THEN MkEvaluation(c, INSUFFICIENT_DATA, <<>>, "Disease severity not documented")
    ELSE LET Keyword(desc_lower, severity_lower) ==
                 \/ IsSubstr("moderate", desc_lower) /\ IsSubstr("moderate", severity_lower)
                 \/ IsSubstr("severe", desc_lower) /\ IsSubstr("severe", severity_lower)
             Verdict(met) ==
                 MkEvaluation(c, IF met THEN MET ELSE NOT_MET,
                     <<"Disease severity: " \o p.disease_severity[1]>>,
                     "Severity '" \o p.disease_severity[1]
                         \o (IF met THEN "' matches" ELSE "' does not match") \o " criterion")
             Decide(allowed, severity_lower) ==
                 IF allowed # <<>>
                 THEN Verdict(severity_lower \in {Underscored(a) : a \in Range(allowed)})
                 ELSE IF c.description = None THEN Raise("AttributeError")
                 ELSE Verdict(Keyword(Lower(c.description[1]), severity_lower))
         IN Decide(MapSeq(c.allowed_values, Lower), Underscored(Lower(p.disease_severity[1])))

MedicationNames(p) == MapSeq(p.prior_treatments, LAMBDA tx : tx.medication_name)

evaluate_prior_treatment_tried(c, p) ==
    IF p.prior_treatments = <<>>
    THEN MkEvaluation(c, INSUFFICIENT_DATA, <<>>, "No prior treatment history available")
    ELSE LET Decide(matched) ==
                 IF IsRaise(matched) THEN matched
                 ELSE MkEvaluation(c, IF matched.value THEN MET ELSE NOT_MET,
                          <<"Prior treatments: " \o PyListRepr(MedicationNames(p))>>,
                          "Prior treatment " \o (IF matched.value THEN "found" ELSE "not found")
                              \o " matching criterion")
         IN Decide(_find_treatment_match(c, p))

FailedOutcomes == {"failed", "inadequate_response", "partial_response", "steroid_dependent"}
OutcomeStr(tx) == IF tx.outcome = None THEN "None" ELSE tx.outcome[1]

evaluate_prior_treatment_failed(c, p) ==
    IF p.prior_treatments = <<>>
    THEN MkEvaluation(c, INSUFFICIENT_DATA, <<>>, "No prior treatment history available")
    ELSE LET Decide(tx) ==
                 IF IsRaise(tx) THEN tx
                 ELSE IF tx = Nothing
                 THEN MkEvaluation(c, NOT_MET, <<>>, "No matching treatment found in history")
                 ELSE IF tx.value.outcome # None /\ tx.value.outcome[1] \in FailedOutcomes
                 THEN MkEvaluation(c, MET,
                          <<tx.value.medication_name \o ": outcome=" \o OutcomeStr(tx.value)>>,
                          "Treatment " \o tx.value.medication_name \o " failed with outcome: "
                              \o OutcomeStr(tx.value))
                 ELSE MkEvaluation(c, NOT_MET,
                          <<"Treatment found but outcome not a failure: "
                              \o OutcomeStr(tx.value)>>,
                          "Treatment was tried but failure not documented")
         IN Decide(_get_matched_treatment(c, p))

evaluate_prior_treatment_intolerant(c, p) ==
    IF p.prior_treatments = <<>>
    THEN MkEvaluation(c, INSUFFICIENT_DATA, <<>>, "No prior treatment history available")
    ELSE LET Decide(tx) ==
                 IF IsRaise(tx) THEN tx
                 ELSE IF tx # Nothing /\ tx.value.outcome = <<"intolerant">>
                 THEN MkEvaluation(c, MET, <<tx.value.medication_name \o ": intolerant">>,
                          "Patient was intolerant to " \o tx.value.medication_name)
                 ELSE MkEvaluation(c, NOT_MET, <<>>,
                          "Intolerance not documented for matched treatment")
         IN Decide(_get_matched_treatment(c, p))

evaluate_prior_treatment_contraindicated(c, p) ==
    IF p.prior_treatments = <<>>
    THEN MkEvaluation(c, INSUFFICIENT_DATA, <<>>, "No prior treatment history available")
    ELSE LET Decide(tx) ==
                 IF IsRaise(tx) THEN tx
                 ELSE IF tx # Nothing /\ tx.value.outcome = <<"contraindicated">>
                 THEN MkEvaluation(c, MET, <<tx.value.medication_name \o ": contraindicated">>,
                          "Contraindication documented for " \o tx.value.medication_name)
                 ELSE MkEvaluation(c, NOT_MET, <<>>,
                          "Contraindication not documented for matched treatment")
         IN Decide(_get_matched_treatment(c, p))

\* "%.0f" of days / 7.0: the nearest whole number (a seventh is never a tie)
WeeksStr(days) == ToString((2 * days + 7) \div 14)

evaluate_prior_treatment_duration(c, p) ==
    IF p.prior_treatments = <<>>
    THEN MkEvaluation(c, INSUFFICIENT_DATA, <<>>, "No prior treatment history available")
    ELSE LET threshold_days ==
                 IF Truthy(c.threshold_value) THEN _safe_float(c.threshold_value) ELSE None
             \* criterion.minimum_duration_days or threshold_days
             min_days ==
                 IF c.minimum_duration_days # None /\ c.minimum_duration_days[1] # 0
                 THEN c.minimum_duration_days
                 ELSE threshold_days
             Compare(tx, weeks, shown, required) ==
                 IF required = None
                 THEN MkEvaluation(c, MET, <<shown>>,
                          "No minimum duration specified; treatment documented")
                 ELSE MkEvaluation(c, IF 7 * weeks >= required[1] THEN MET ELSE NOT_MET,
                          <<shown \o " (required: " \o WeeksStr(required[1]) \o " weeks)">>,
                          "Duration " \o ToString(weeks) \o "w"
                              \o (IF 7 * weeks >= required[1] THEN " meets"
                                  ELSE " does not meet")
                              \o " minimum " \o WeeksStr(required[1]) \o "w")
             Decide(tx) ==
                 IF IsRaise(tx) THEN tx
                 ELSE IF tx = Nothing
                 THEN MkEvaluation(c, NOT_MET, <<>>, "No matching treatment found")
                 ELSE IF tx.value.duration_weeks = None
                 THEN MkEvaluation(c, INSUFFICIENT_DATA, <<>>,
                          "Duration not documented for " \o tx.value.medication_name)
                 ELSE Compare(tx, tx.value.duration_weeks[1],
                              tx.value.medication_name \o ": "
                                  \o ToString(tx.value.duration_weeks[1]) \o " weeks",
                              min_days)
         IN Decide(_get_matched_treatment(c, p))

LabShown(lab) ==
    lab.test_name \o ": " \o FloatStr(lab.value[1]) \o " "
        \o (IF Falsy(lab.unit) THEN "" ELSE lab.unit[1])

NoThresholdLabInsufficient == INSUFFICIENT_DATA
\* verdict=CriterionVerdict.MET when the lab is present and the criterion has no threshold
NoThresholdLabVerdict == MET

evaluate_lab_value(c, p) ==
    IF p.lab_results = <<>>
    THEN MkEvaluation(c, INSUFFICIENT_DATA, <<>>, "No lab results available")
    ELSE LET Compare(lab, threshold) ==
                 IF threshold = None
                 THEN MkEvaluation(c, INSUFFICIENT_DATA, <<>>,
                          "Non-numeric threshold value: " \o PyStr(c.threshold_value))
                 ELSE LET Verdict(met) ==
                              MkEvaluation(c, IF met THEN MET ELSE NOT_MET,
                                  <<LabShown(lab.value)>>,
                                  "Lab " \o lab.value.test_name \o " = "
                                      \o FloatStr(lab.value.value[1])
                                      \o (IF met THEN " meets" ELSE " does not meet")
                                      \o " threshold " \o OpStr(c) \o " "
                                      \o FloatStr(threshold[1]))
                      IN Verdict(_compare_numeric(lab.value.value[1], threshold[1],
                                     c.comparison_operator, c.threshold_value_upper))
             Decide(lab) ==
                 IF IsRaise(lab) THEN lab
                 ELSE IF lab = Nothing \/ lab.value.value = None
                 THEN MkEvaluation(c, INSUFFICIENT_DATA, <<>>,
                          "Lab result '" \o c.name \o "' not found in patient data")
                 ELSE IF c.threshold_value = None
                 THEN MkEvaluation(c, NoThresholdLabVerdict, <<LabShown(lab.value)>>,
                          "Lab present; no threshold to compare")
                 ELSE Compare(lab, _safe_float(c.threshold_value))
         IN Decide(_find_lab_result(c, p))

evaluate_lab_test_completed(c, p) ==
    IF p.lab_results = <<>>
    THEN MkEvaluation(c, INSUFFICIENT_DATA, <<>>, "No lab results available")
    ELSE LET Decide(lab) ==
                 IF IsRaise(lab) THEN lab
                 ELSE IF lab # Nothing
                 THEN MkEvaluation(c, MET, <<"Lab " \o lab.value.test_name \o " found">>,
                          "Lab test completed")
                 ELSE MkEvaluation(c, INSUFFICIENT_DATA, <<"Lab '" \o c.name \o "' not found">>,
                          "Lab test not found")
         IN Decide(_find_lab_result(c, p))

ScreeningMissNotMet(screening) == NOT_MET
\* INSUFFICIENT_DATA if screening is None else NOT_MET
ScreeningMissVerdict(screening) == IF screening = Nothing THEN INSUFFICIENT_DATA ELSE NOT_MET

evaluate_safety_screening_completed(c, p) ==
    IF p.completed_screenings = <<>>
    THEN MkEvaluation(c, INSUFFICIENT_DATA, <<>>, "No screening data available")
    ELSE LET Decide(screening) ==
                 IF IsRaise(screening) THEN screening
                 ELSE IF screening # Nothing /\ screening.value.completed
                 THEN MkEvaluation(c, MET,
                          <<"Screening '" \o screening.value.screening_type \o "' completed">>,
                          "Safety screening " \o screening.value.screening_type \o " completed")
                 ELSE MkEvaluation(c, ScreeningMissVerdict(screening), <<>>,
                          "Screening " \o (IF screening = Nothing THEN "not found"
                                           ELSE "not completed"))
         IN Decide(_find_screening(c, p))

evaluate_safety_screening_negative(c, p) ==
    IF p.completed_screenings = <<>>
    THEN MkEvaluation(c, INSUFFICIENT_DATA, <<>>, "No screening data available")
    ELSE LET Decide(screening) ==
                 IF IsRaise(screening) THEN screening
                 ELSE IF screening # Nothing /\ screening.value.completed
                         /\ screening.value.result_negative = <<TRUE>>
                 THEN MkEvaluation(c, MET,
                          <<"Screening '" \o screening.value.screening_type
                              \o "' completed and negative">>,
                          "Safety screening " \o screening.value.screening_type \o " negative")
                 ELSE IF screening # Nothing /\ screening.value.completed
                         /\ screening.value.result_negative = <<FALSE>>
                 THEN MkEvaluation(c, NOT_MET,
                          <<"Screening '" \o screening.value.screening_type
                              \o "' positive/not negative">>,
                          "Safety screening " \o screening.value.screening_type
                              \o " not negative")
                 ELSE MkEvaluation(c, INSUFFICIENT_DATA, <<>>, "Screening result not available")
         IN Decide(_find_screening(c, p))

SpecialtyStems == <<"gastroenterolog", "rheumatolog", "dermatolog", "neurolog", "oncolog">>

evaluate_prescriber_specialty(c, p) ==
    IF Falsy(p.prescriber_specialty)
    THEN MkEvaluation(c, INSUFFICIENT_DATA, <<>>, "Prescriber specialty not available")
    ELSE IF c.description = None THEN Raise("AttributeError")
    ELSE LET Match(allowed, desc_lower, specialty_lower, criterion_name_lower) ==
                 IF allowed # <<>> THEN specialty_lower \in Range(allowed)
                 ELSE \E keyword \in Range(SpecialtyStems) :
                         /\ IsSubstr(keyword, specialty_lower)
                         /\ (IsSubstr(keyword, desc_lower)
                             \/ IsSubstr(keyword, criterion_name_lower))
             Verdict(met) ==
                 MkEvaluation(c, IF met THEN MET ELSE NOT_MET,
                     <<"Prescriber specialty: " \o p.prescriber_specialty[1]>>,
                     "Specialty '" \o p.prescriber_specialty[1]
                         \o (IF met THEN "' matches" ELSE "' does not match") \o " requirement")
         IN Verdict(Match(MapSeq(c.allowed_values, Lower), Lower(c.description[1]),
                          Lower(p.prescriber_specialty[1]), Lower(c.name)))

evaluate_prescriber_consultation(c, p) == evaluate_prescriber_specialty(c, p)

evaluate_documentation(c, p) ==
    MkEvaluation(c, INSUFFICIENT_DATA, <<>>, "Documentation presence requires manual verification")

evaluate_disease_duration(c, p) ==
    MkEvaluation(c, INSUFFICIENT_DATA, <<>>, "Disease duration requires clinical notes review")

evaluate_concurrent_therapy(c, p) ==
    MkEvaluation(c, INSUFFICIENT_DATA, <<>>, "Concurrent therapy status requires clinical review")

evaluate_custom(c, p) ==
    MkEvaluation(c, INSUFFICIENT_DATA, <<>>, "Custom criterion requires manual evaluation")

----------------------------------------------------------------------------
(* EVALUATOR_REGISTRY and evaluate_criterion *)

RegisteredTypes ==
    {"age", "gender", "diagnosis_confirmed", "diagnosis_severity", "prior_treatment_tried",
     "prior_treatment_failed", "prior_treatment_intolerant", "prior_treatment_contraindicated",
     "prior_treatment_duration", "lab_value", "lab_test_completed",
     "safety_screening_completed", "safety_screening_negative", "prescriber_specialty",
     "prescriber_consultation", "documentation_present", "clinical_marker_present",
     "disease_duration", "concurrent_therapy", "no_concurrent_therapy", "custom"}

\* EVALUATOR_REGISTRY[criterion_type](criterion, patient)
RunEvaluator(t, c, p) ==
    CASE t = "age" -> evaluate_age(c, p)
      [] t = "gender" -> evaluate_gender(c, p)
      [] t = "diagnosis_confirmed" -> evaluate_diagnosis_confirmed(c, p)
      [] t = "diagnosis_severity" -> evaluate_diagnosis_severity(c, p)
      [] t = "prior_treatment_tried" -> evaluate_prior_treatment_tried(c, p)
      [] t = "prior_treatment_failed" -> evaluate_prior_treatment_failed(c, p)
      [] t = "prior_treatment_intolerant" -> evaluate_prior_treatment_intolerant(c, p)
      [] t = "prior_treatment_contraindicated" -> evaluate_prior_treatment_contraindicated(c, p)
      [] t = "prior_treatment_duration" -> evaluate_prior_treatment_duration(c, p)
      [] t = "lab_value" -> evaluate_lab_value(c, p)
      [] t = "lab_test_completed" -> evaluate_lab_test_completed(c, p)
      [] t = "safety_screening_completed" -> evaluate_safety_screening_completed(c, p)
      [] t = "safety_screening_negative" -> evaluate_safety_screening_negative(c, p)
      [] t = "prescriber_specialty" -> evaluate_prescriber_specialty(c, p)
      [] t = "prescriber_consultation" -> evaluate_prescriber_consultation(c, p)
      [] t \in {"documentation_present", "clinical_marker_present"} -> evaluate_documentation(c, p)
      [] t = "disease_duration" -> evaluate_disease_duration(c, p)
      [] t \in {"concurrent_therapy", "no_concurrent_therapy"} -> evaluate_concurrent_therapy(c, p)
      [] t = "custom" -> evaluate_custom(c, p)

\* the try/except around the evaluator
Uncaught(r, c) == r
Caught(r, c) ==
    IF IsRaise(r)
    THEN MkEvaluation(c, INSUFFICIENT_DATA, <<>>, "Evaluation error: " \o r.exception)
    ELSE r

evaluate_criterion(c, p) ==
    IF c.criterion_type \notin RegisteredTypes
    THEN MkEvaluation(c, INSUFFICIENT_DATA, <<>>,
             "No evaluator registered for type '" \o c.criterion_type \o "'")
    ELSE Caught(RunEvaluator(c.criterion_type, c, p), c)

----------------------------------------------------------------------------
(* _combine_verdicts *)

NotApplicableFilter(v) == v # NOT_APPLICABLE

\* effective = [v for v in verdicts if v != NOT_APPLICABLE]
Effective(vs) == SelectSeq(vs, NotApplicableFilter)

\* child = verdicts[0]
NotChild(vs) == vs[1]

\* if negated: MET <-> NOT_MET
Flip(v) ==
    IF v = MET THEN NOT_MET
    ELSE IF v = NOT_MET THEN MET
    ELSE v

CombineAndAnyMet(effective) ==
    IF \E i \in DOMAIN effective : effective[i] = MET THEN MET
    ELSE IF \E i \in DOMAIN effective : effective[i] = NOT_MET THEN NOT_MET
    ELSE INSUFFICIENT_DATA
CombineAnd(effective) ==
    IF \A i \in DOMAIN effective : effective[i] = MET THEN MET
    ELSE IF \E i \in DOMAIN effective : effective[i] = NOT_MET THEN NOT_MET
    ELSE INSUFFICIENT_DATA

CombineOr(effective) ==
    IF \E i \in DOMAIN effective : effective[i] = MET THEN MET
    ELSE IF \A i \in DOMAIN effective : effective[i] = NOT_MET THEN NOT_MET
    ELSE INSUFFICIENT_DATA

CombineNot(vs) ==
    LET child == NotChild(vs)
    IN IF child = MET THEN NOT_MET
       ELSE IF child = NOT_MET THEN MET
       ELSE child

_combine_verdicts(vs, op, neg) ==
    IF vs = <<>> THEN NOT_APPLICABLE
    ELSE IF Effective(vs) = <<>> THEN NOT_APPLICABLE
    ELSE LET combined_result ==
                 IF op = "AND" THEN CombineAnd(Effective(vs))
                 ELSE IF op = "OR" THEN CombineOr(Effective(vs))
                 ELSE IF op = "NOT" THEN CombineNot(vs)
                 ELSE INSUFFICIENT_DATA
         IN IF neg THEN Flip(combined_result) ELSE combined_result

----------------------------------------------------------------------------
(* DigitizedPolicy.get_criterion, DigitizedPolicy.get_group: lookups in the      *)
(* atomic_criteria and criterion_groups mappings of the policy                   *)

get_criterion(pol, criterion_id) ==
    IF criterion_id \in DOMAIN pol.atomic_criteria
    THEN Just(pol.atomic_criteria[criterion_id])
    ELSE Nothing

get_group(pol, group_id) ==
    IF group_id \in DOMAIN pol.criterion_groups
    THEN Just(pol.criterion_groups[group_id])
    ELSE Nothing

----------------------------------------------------------------------------
(* evaluate_step_therapy *)

StepFailedOutcomes == {"failed", "inadequate_response", "partial_response", "steroid_dependent"}

\* whether the treatment's name or class contains the required item
StepHit(item, tx) ==
    \/ IsSubstr(Lower(item), Lower(tx.medication_name))
    \/ IsSubstr(Lower(item), IF tx.drug_class = None THEN "" ELSE Lower(tx.drug_class[1]))

\* index of the last treatment whose name or class contains the item, 0 if none
StepMatchLast(item, p) ==
    LET Last(hits) == IF hits = {} THEN 0 ELSE CHOOSE i \in hits : \A j \in hits : j <= i
    IN Last({i \in DOMAIN p.prior_treatments : StepHit(item, p.prior_treatments[i])})

\* index of the first treatment whose name or class contains the item, 0 if none
StepMatch(item, p) ==
    LET Hit(tx) ==
            \/ IsSubstr(Lower(item), Lower(tx.medication_name))
            \/ IsSubstr(Lower(item), IF tx.drug_class = None THEN "" ELSE Lower(tx.drug_class[1]))
    IN FirstIndex(p.prior_treatments, Hit)

\* the entry appended to drug_details for a matched treatment, <<>> when none is appended
StepDetail(req, tx) ==
    IF tx.outcome # None /\ tx.outcome[1] \in StepFailedOutcomes
    THEN <<[drug |-> tx.medication_name, outcome |-> tx.outcome,
            duration_weeks |-> tx.duration_weeks, adequate_trial |-> tx.adequate_trial]>>
    ELSE IF tx.outcome = <<"intolerant">> /\ req.intolerance_acceptable
    THEN <<[drug |-> tx.medication_name, outcome |-> tx.outcome, acceptable |-> TRUE]>>
    ELSE IF tx.outcome = <<"contraindicated">> /\ req.contraindication_acceptable
    THEN <<[drug |-> tx.medication_name, outcome |-> tx.outcome, acceptable |-> TRUE]>>
    ELSE <<>>

RECURSIVE StepItems(_, _, _, _)
\* the loop over required_items from index i: [drugs_tried, drugs_failed, details]
StepItems(req, items, p, i) ==
    IF i > Len(items) THEN [drugs_tried |-> 0, drugs_failed |-> 0, details |-> <<>>]
    ELSE LET rest == StepItems(req, items, p, i + 1)
             k == StepMatch(items[i], p)
             detail == IF k = 0 THEN <<>> ELSE StepDetail(req, p.prior_treatments[k])
         IN [drugs_tried |-> rest.drugs_tried + (IF k = 0 THEN 0 ELSE 1),
             drugs_failed |-> rest.drugs_failed + Len(detail),
             details |-> detail \o rest.details]

StepRequirement(req, p) ==
    LET counted == StepItems(req, req.required_drugs \o req.required_drug_classes, p, 1)
    IN [requirement_id |-> req.requirement_id, indication |-> req.indication,
        minimum_trials |-> req.minimum_trials, drugs_tried |-> counted.drugs_tried,
        drugs_failed |-> counted.drugs_failed,
        satisfied |-> counted.drugs_failed >= req.minimum_trials,
        details |-> counted.details]

evaluate_step_therapy(pol, p) ==
    IF pol.step_therapy_requirements = <<>>
    THEN [required |-> FALSE, satisfied |-> TRUE, details |-> <<>>]
    ELSE LET results == [i \in DOMAIN pol.step_therapy_requirements |->
                            StepRequirement(pol.step_therapy_requirements[i], p)]
         IN [required |-> TRUE,
             satisfied |-> \A i \in DOMAIN results : results[i].satisfied,
             details |-> results]

----------------------------------------------------------------------------
(* evaluate_group: the recursion, one step per invocation, loop turn and return *)

RECURSIVE Concat(_)
Concat(seqs) == IF seqs = <<>> THEN <<>> ELSE Head(seqs) \o Concat(Tail(seqs))

\* the criteria loop: the evaluations of the criteria ids that resolve, in list order
CriteriaResults(pol, p, group) ==
    LET Resolves(cid) == get_criterion(pol, cid) # Nothing
        found == SelectSeq(group.criteria, Resolves)
    IN [i \in DOMAIN found |-> evaluate_criterion(get_criterion(pol, found[i]).value, p)]

AnyRaise(evals) == \E i \in DOMAIN evals : IsRaise(evals[i])

\* if _visited is None: _visited = set()
FreshVisited == {}

\* _visited.add(group.group_id)
AddVisited(vis, group_id) == vis \cup {group_id}

NoDiscard(vis, group_id) == vis
\* _visited.discard(group.group_id)
DiscardVisited(vis, group_id) == vis \ {group_id}

NeverVisited(vis, group_id) == FALSE
\* group.group_id in _visited
IsVisited(vis, group_id) == group_id \in vis

CircularNotApplicable(group) ==
    [group_id |-> group.group_id, operator |-> group.operator,
     verdict |-> NOT_APPLICABLE, reasoning |-> "Circular group reference detected",
     criteria_results |-> <<>>, subgroup_results |-> <<>>]

\* the GroupEvaluation returned when the group is on the current path
CircularEvaluation(group) ==
    [group_id |-> group.group_id, operator |-> group.operator,
     verdict |-> INSUFFICIENT_DATA, reasoning |-> "Circular group reference detected",
     criteria_results |-> <<>>, subgroup_results |-> <<>>]

\* the GroupEvaluation returned after the two loops
CombinedEvaluation(group, criteria_results, subgroup_results) ==
    LET all_verdicts == [i \in DOMAIN criteria_results |-> criteria_results[i].verdict]
                        \o [i \in DOMAIN subgroup_results |-> subgroup_results[i].verdict]
    IN [group_id |-> group.group_id, operator |-> group.operator,
        verdict |-> _combine_verdicts(all_verdicts, group.operator, group.negated),
        reasoning |-> "",
        criteria_results |-> criteria_results, subgroup_results |-> subgroup_results]

\* the frame of an invocation that passed the cycle check; entered_with is history:
\* the _visited set the invocation was called with
Frame(pol, p, group, vis) ==
    [group_id |-> group.group_id,
     criteria_results |-> CriteriaResults(pol, p, group),
     subgroup_results |-> <<>>, next |-> 1, entered_with |-> vis]

Top == stack[Len(stack)]
TopGroup == policy.criterion_groups[Top.group_id]
InGroup == pc \in {"group", "indication"} /\ stack # <<>>
Max(a, b) == IF a >= b THEN a ELSE b

\* an invocation of evaluate_group(group, ..., vis) that passes the cycle check
Enter(group, vis) ==
    LET frame == Frame(policy, patient, group, vis)
    IN IF AnyRaise(frame.criteria_results)
       THEN /\ pc' = "raised"
            /\ stack' = <<>>
            /\ UNCHANGED <<visited, maxDepth>>
       ELSE /\ stack' = Append(stack, frame)
            /\ visited' = AddVisited(vis, group.group_id)
            /\ maxDepth' = Max(maxDepth, Len(stack) + 1)
            /\ pc' = IF pc = "call_group" THEN "group"
                     ELSE IF pc = "loop" THEN "indication" ELSE pc

\* evaluate_group(group, policy, patient) called from outside on the group with id 1
StartGroup ==
    /\ pc = "call_group"
    /\ Enter(policy.criterion_groups[1], FreshVisited)
    /\ steps' = steps + 1
    /\ UNCHANGED <<serviceVars, combineVars, criterionVars, patient, policy, ret, policyVars>>

\* for sg_id in group.subgroups: sg resolves and is not on the path: recurse
EnterSubgroup ==
    /\ InGroup
    /\ Top.next <= Len(TopGroup.subgroups)
    /\ LET sg == get_group(policy, TopGroup.subgroups[Top.next])
       IN /\ sg # Nothing
          /\ ~IsVisited(visited, sg.value.group_id)
          /\ Enter(sg.value, visited)
    /\ steps' = steps + 1
    /\ UNCHANGED <<serviceVars, combineVars, criterionVars, patient, policy, ret, policyVars>>

\* for sg_id in group.subgroups: sg resolves and is on the path: the nested invocation
\* returns the circular evaluation at once
CycleSubgroup ==
    /\ InGroup
    /\ Top.next <= Len(TopGroup.subgroups)
    /\ LET sg == get_group(policy, TopGroup.subgroups[Top.next])
       IN /\ sg # Nothing
          /\ IsVisited(visited, sg.value.group_id)
          /\ stack' = [stack EXCEPT ![Len(stack)] =
                 [@ EXCEPT !.subgroup_results = Append(@, CircularEvaluation(sg.value)),
                           !.next = @ + 1]]
    /\ maxDepth' = Max(maxDepth, Len(stack) + 1)
    /\ steps' = steps + 1
    /\ UNCHANGED <<serviceVars, combineVars, criterionVars, patient, policy, pc, visited, ret, policyVars>>

\* for sg_id in group.subgroups: policy.get_group(sg_id) is None
SkipSubgroup ==
    /\ InGroup
    /\ Top.next <= Len(TopGroup.subgroups)
    /\ get_group(policy, TopGroup.subgroups[Top.next]) = Nothing
    /\ stack' = [stack EXCEPT ![Len(stack)] = [@ EXCEPT !.next = @ + 1]]
    /\ steps' = steps + 1
    /\ UNCHANGED <<serviceVars, combineVars, criterionVars, patient, policy, pc, visited, ret, maxDepth,
                   policyVars>>

\* after the subgroup loop: discard, combine, return to the invocation below or to the caller
ReturnGroup ==
    /\ InGroup
    /\ Top.next > Len(TopGroup.subgroups)
    /\ LET done == CombinedEvaluation(TopGroup, Top.criteria_results, Top.subgroup_results)
           below == SubSeq(stack, 1, Len(stack) - 1)
       IN /\ visited' = DiscardVisited(visited, Top.group_id)
          /\ IF below = <<>>
             THEN /\ stack' = <<>>
                  /\ ret' = done
                  /\ pc' = IF pc = "group" THEN "done" ELSE "collect"
             ELSE /\ stack' = [below EXCEPT ![Len(below)] =
                        [@ EXCEPT !.subgroup_results = Append(@, done), !.next = @ + 1]]
                  /\ UNCHANGED <<ret, pc>>
    /\ steps' = steps + 1
    /\ UNCHANGED <<serviceVars, combineVars, criterionVars, patient, policy, maxDepth, policyVars>>

----------------------------------------------------------------------------
(* evaluate_policy *)

RECURSIVE _collect_all_criteria_evals(_)
\* group_result is None or a GroupEvaluation
_collect_all_criteria_evals(group_result) ==
    IF group_result = None THEN <<>>
    ELSE group_result.criteria_results
         \o Concat([i \in DOMAIN group_result.subgroup_results |->
                       _collect_all_criteria_evals(group_result.subgroup_results[i])])

HasVerdict(evals, v) ==
    LET Is(e) == e.verdict = v
    IN SelectSeq(evals, Is)

UnresolvedRootNotApplicable == NOT_APPLICABLE
\* overall = group_result.verdict if group_result else INSUFFICIENT_DATA
UnresolvedRootVerdict == INSUFFICIENT_DATA

\* the IndicationEvaluation appended for an indication; group_result is None when the
\* root group id does not resolve
MkIndicationEvaluation(indication, group_result) ==
    LET all_criteria == _collect_all_criteria_evals(group_result)
    IN [indication_id |-> indication.indication_id,
        indication_name |-> indication.indication_name,
        overall_verdict |-> IF group_result # None THEN group_result.verdict
                            ELSE UnresolvedRootVerdict,
        approval_criteria_result |-> group_result,
        criteria_met_count |-> Len(HasVerdict(all_criteria, MET)),
        criteria_total_count |-> Len(all_criteria),
        unmet_criteria |-> HasVerdict(all_criteria, NOT_MET),
        insufficient_criteria |-> HasVerdict(all_criteria, INSUFFICIENT_DATA)]

\* the evaluations of the trigger criteria that resolve, of one exclusion
ExclusionResults(pol, p, excl) ==
    LET Resolves(cid) == get_criterion(pol, cid) # Nothing
        found == SelectSeq(excl.trigger_criteria, Resolves)
    IN [i \in DOMAIN found |-> evaluate_criterion(get_criterion(pol, found[i]).value, p)]

exclusion_evaluations(pol, p) ==
    Concat([i \in DOMAIN pol.exclusions |-> ExclusionResults(pol, p, pol.exclusions[i])])

\* met / total in thousandths, cut off instead of rounded
Truncate3(met, total) == IF total = 0 THEN 0 ELSE (1000 * met) \div total

\* round(met / total, 3) in thousandths, halves to the even neighbour; 0 when total is 0
Round3(met, total) ==
    IF total = 0 THEN 0
    ELSE LET q == (1000 * met) \div total
             r == (1000 * met) % total
         IN IF 2 * r < total THEN q
            ELSE IF 2 * r > total THEN q + 1
            ELSE IF q % 2 = 0 THEN q ELSE q + 1

overall_readiness(evals) ==
    LET all_evals == Concat([i \in DOMAIN evals |->
                                _collect_all_criteria_evals(evals[i].approval_criteria_result)])
    IN Round3(Len(HasVerdict(all_evals, MET)), Len(all_evals))

RECURSIVE BestVerdictLoop(_, _, _, _)
\* the loop over indication_evaluations from index i, with its break on MET
BestVerdictLoop(evals, i, best_verdict, has_real_evaluation) ==
    IF i > Len(evals)
    THEN IF has_real_evaluation THEN best_verdict ELSE NOT_APPLICABLE
    ELSE IF evals[i].overall_verdict = MET THEN MET
    ELSE IF evals[i].overall_verdict = INSUFFICIENT_DATA
    THEN BestVerdictLoop(evals, i + 1, INSUFFICIENT_DATA, TRUE)
    ELSE IF evals[i].overall_verdict = NOT_MET
    THEN BestVerdictLoop(evals, i + 1, best_verdict, TRUE)
    ELSE BestVerdictLoop(evals, i + 1, best_verdict, has_real_evaluation)

NoIndicationsNotApplicable == NOT_APPLICABLE
\* else: overall_verdict = INSUFFICIENT_DATA
NoIndicationsVerdict == INSUFFICIENT_DATA

overall_verdict(evals) ==
    IF evals # <<>> THEN BestVerdictLoop(evals, 1, NOT_MET, FALSE)
    ELSE NoIndicationsVerdict

Gap(e, ie, gap_type, action) ==
    [criterion_id |-> e.criterion_id, criterion_name |-> e.criterion_name,
     indication |-> ie.indication_name, gap_type |-> gap_type,
     action |-> action \o e.criterion_name]

GapAnyUnmet(e) == TRUE
\* if uc.is_required
GapRequired(e) == e.is_required

IndicationGaps(ie) ==
    LET unmet == SelectSeq(ie.unmet_criteria, GapRequired)
    IN [i \in DOMAIN ie.insufficient_criteria |->
           Gap(ie.insufficient_criteria[i], ie, "insufficient_data", "Obtain documentation for: ")]
       \o [i \in DOMAIN unmet |-> Gap(unmet[i], ie, "not_met", "Address unmet criterion: ")]

gaps(evals) == Concat([i \in DOMAIN evals |-> IndicationGaps(evals[i])])

PolicyEvaluationResult(pol, p, evals) ==
    [policy_id |-> pol.policy_id,
     patient_id |-> IF Falsy(p.patient_id) THEN "unknown" ELSE p.patient_id[1],
     indication_evaluations |-> evals,
     exclusion_evaluations |-> exclusion_evaluations(pol, p),
     step_therapy_evaluation |-> evaluate_step_therapy(pol, p),
     overall_readiness |-> overall_readiness(evals),
     overall_verdict |-> overall_verdict(evals),
     gaps |-> gaps(evals)]

KeptList(old) == old
\* indication_evaluations = []
FreshList(old) == <<>>

----------------------------------------------------------------------------
(* Bounds *)

MaxVerdicts == 3       \* longest list of child verdicts given to _combine_verdicts
NumGroups == 3         \* groups of the generated policies, ids 1..NumGroups
MaxSubgroups == 2      \* longest subgroups list of a generated group
MaxRefs == 3           \* subgroup references in a generated policy, all groups together
MaxCriteriaRefs == 1   \* generated groups that list a criterion
MaxNegated == 1        \* generated groups with negated = True
MaxIndications == 2    \* longest indications list of a policy
MaxCalls == 3          \* evaluate_policy calls in one behaviour

----------------------------------------------------------------------------
(* Inputs: criteria, patients, policies *)

AtomicCriterion(criterion_id, criterion_type, name, description) ==
    [criterion_id |-> criterion_id, criterion_type |-> criterion_type, name |-> name,
     description |-> description, is_required |-> TRUE,
     threshold_value |-> None, threshold_value_upper |-> None,
     comparison_operator |-> None, allowed_values |-> <<>>, clinical_codes |-> <<>>,
     drug_names |-> <<>>, drug_classes |-> <<>>, minimum_duration_days |-> None]

NormalizedPatientData(patient_id) ==
    [patient_id |-> patient_id, age_years |-> None, gender |-> None,
     diagnosis_codes |-> <<>>, disease_severity |-> None, prior_treatments |-> <<>>,
     lab_results |-> <<>>, completed_screenings |-> <<>>,
     prescriber_specialty |-> None, prescriber_npi |-> None]

NormalizedTreatment(medication_name, drug_class, duration_weeks, outcome) ==
    [medication_name |-> medication_name, drug_class |-> drug_class,
     duration_weeks |-> duration_weeks, outcome |-> outcome, adequate_trial |-> TRUE]

NormalizedLabResult(test_name, loinc_code, value) ==
    [test_name |-> test_name, loinc_code |-> loinc_code, value |-> value,
     unit |-> None, date |-> None, flag |-> None]

NormalizedScreening(screening_type, completed, result_negative) ==
    [screening_type |-> screening_type, completed |-> completed,
     result_negative |-> result_negative, date |-> None]

EmptyPatient == NormalizedPatientData(<<"P_EMPTY">>)

IsEmptyPatient(p) ==
    /\ p.age_years = None /\ p.gender = None /\ p.disease_severity = None
    /\ p.prescriber_specialty = None /\ p.diagnosis_codes = <<>>
    /\ p.prior_treatments = <<>> /\ p.lab_results = <<>> /\ p.completed_screenings = <<>>

Methotrexate == NormalizedTreatment("Methotrexate", <<"immunomodulator">>, <<12>>, <<"failed">>)
Prednisone == NormalizedTreatment("Prednisone", <<"corticosteroid">>, None, <<"intolerant">>)
Azathioprine == NormalizedTreatment("Azathioprine", None, <<4>>, None)

YoungPatient ==
    [NormalizedPatientData(<<"P_YOUNG">>) EXCEPT
        !.age_years = <<20>>, !.gender = <<"Male">>,
        !.diagnosis_codes = <<"K50.10">>, !.disease_severity = <<"moderate to severe">>,
        !.prior_treatments = <<Methotrexate, Prednisone>>,
        !.lab_results = <<NormalizedLabResult("CRP", <<"1988-5">>, <<12>>)>>,
        !.completed_screenings = <<NormalizedScreening("tb", TRUE, <<TRUE>>)>>,
        !.prescriber_specialty = <<"Gastroenterology">>]

OlderPatient ==
    [NormalizedPatientData(None) EXCEPT
        !.age_years = <<70>>, !.gender = <<"female">>,
        !.diagnosis_codes = <<"M05.79">>,
        !.prior_treatments = <<Azathioprine>>,
        !.lab_results = <<NormalizedLabResult("Hemoglobin", None, None)>>,
        !.completed_screenings = <<NormalizedScreening("tb", FALSE, None),
                                   NormalizedScreening("hepatitis_b", TRUE, <<FALSE>>)>>]

\* screenings on file, none of them for tuberculosis
OtherScreeningPatient ==
    [NormalizedPatientData(<<"P_HEPB">>) EXCEPT
        !.completed_screenings = <<NormalizedScreening("hepatitis_b", TRUE, <<TRUE>>)>>]

\* a tuberculosis screening ordered but not completed
PendingScreeningPatient ==
    [NormalizedPatientData(<<"P_PENDING">>) EXCEPT
        !.age_years = <<20>>,
        !.completed_screenings = <<NormalizedScreening("TB", FALSE, None)>>]

CriterionPatients ==
    {EmptyPatient, NormalizedPatientData(None), YoungPatient, OlderPatient,
     OtherScreeningPatient, PendingScreeningPatient}

CriterionTypes == RegisteredTypes \cup {"biomarker_present"}
CriterionNames == {"TB screening", "CRP level"}
CriterionDescriptions ==
    {None, <<"Tuberculosis test before methotrexate; moderate disease; gastroenterologist">>,
     <<"Other requirement">>}
CriterionThresholds == {None, Num(18), Str("65"), Str("abc")}
CriterionOperators == {None, <<"lt">>, <<"between">>}

\* a criterion with its list fields empty or filled
WithLists(c, filled) ==
    IF ~filled THEN c
    ELSE [c EXCEPT !.allowed_values = <<"male", "moderate_to_severe", "gastroenterology">>,
                   !.clinical_codes = <<[system |-> "ICD-10", code |-> "K50"],
                                        [system |-> "LOINC", code |-> "1988-5"]>>,
                   !.drug_names = <<"methotrexate">>,
                   !.drug_classes = <<"corticosteroid">>,
                   !.minimum_duration_days = <<56>>,
                   !.threshold_value_upper = Num(30),
                   !.is_required = FALSE]

CriterionFamily ==
    {WithLists([AtomicCriterion("CRIT", t, n, d) EXCEPT
                    !.threshold_value = th, !.comparison_operator = op], filled) :
        t \in CriterionTypes, n \in CriterionNames, d \in CriterionDescriptions,
        th \in CriterionThresholds, op \in CriterionOperators, filled \in BOOLEAN}

\* policy.atomic_criteria of the generated policies; "C_MISSING" is listed by groups and
\* exclusions but is not a key
PolicyCriteria ==
    LET tb == <<"Tuberculosis screening">>
    IN [id \in {"AGE_GE_18", "AGE_GE_65", "DIAG_CD", "TB_SCREEN", "STEP_MTX", "DOC",
                "BIOMARKER", "BROKEN"} |->
        CASE id = "AGE_GE_18" ->
                [AtomicCriterion(id, "age", "Age >= 18", <<"Patient must be 18+">>)
                    EXCEPT !.threshold_value = Num(18), !.comparison_operator = <<"gte">>]
          [] id = "AGE_GE_65" ->
                [AtomicCriterion(id, "age", "Age >= 65", <<"Patient must be 65+">>)
                    EXCEPT !.threshold_value = Num(65), !.comparison_operator = <<"gte">>]
          [] id = "DIAG_CD" ->
                [AtomicCriterion(id, "diagnosis_confirmed", "Crohn's disease", <<"Diagnosis">>)
                    EXCEPT !.clinical_codes = <<[system |-> "ICD-10", code |-> "K50"]>>,
                           !.is_required = FALSE]
          [] id = "TB_SCREEN" ->
                AtomicCriterion(id, "safety_screening_completed", "TB screening", tb)
          [] id = "STEP_MTX" ->
                [AtomicCriterion(id, "prior_treatment_failed", "Failed methotrexate",
                                 <<"Inadequate response to an immunomodulator">>)
                    EXCEPT !.drug_names = <<"methotrexate">>]
          [] id = "DOC" ->
                AtomicCriterion(id, "documentation_present", "Chart notes", <<"Notes">>)
          [] id = "BIOMARKER" ->
                AtomicCriterion(id, "biomarker_present", "Biomarker", <<"Marker">>)
          [] id = "BROKEN" ->
                AtomicCriterion(id, "prescriber_specialty", "Specialist", None)]

CriterionGroup(group_id, op, neg, criteria, subgroups) ==
    [group_id |-> group_id, operator |-> op, negated |-> neg,
     criteria |-> criteria, subgroups |-> subgroups]

DigitizedPolicy(criterion_groups, indications, exclusions, step_therapy_requirements) ==
    [policy_id |-> "POL", atomic_criteria |-> PolicyCriteria,
     criterion_groups |-> criterion_groups, indications |-> indications,
     exclusions |-> exclusions, step_therapy_requirements |-> step_therapy_requirements]

GroupIds == 1..NumGroups
\* a subgroup id that is no key of criterion_groups
DanglingGroup == NumGroups + 1

RECURSIVE TotalLen(_, _)
TotalLen(f, ids) ==
    IF ids = {} THEN 0
    ELSE LET g == CHOOSE x \in ids : TRUE
         IN Len(f[g]) + TotalLen(f, ids \ {g})

RECURSIVE ReachableFrom(_, _)
\* the group ids reachable from the set of ids through resolved subgroup references
ReachableFrom(subgroups, ids) ==
    LET more == ids \cup {g \in DOMAIN subgroups : \E h \in ids : g \in Range(subgroups[h])}
    IN IF more = ids THEN ids ELSE ReachableFrom(subgroups, more)

Shapes ==
    {sh \in [GroupIds -> SeqsUpTo(1..DanglingGroup, MaxSubgroups)] :
        /\ TotalLen(sh, GroupIds) <= MaxRefs
        /\ \A g \in GroupIds \ ReachableFrom(sh, {1}) : sh[g] = <<>>}

GroupCriteria == {<<"AGE_GE_18">>, <<"AGE_GE_65">>, <<"DOC">>, <<"C_MISSING">>}

\* criteria lists of the groups: at most MaxCriteriaRefs groups list a criterion
CriteriaChoices ==
    {cr \in [GroupIds -> GroupCriteria \cup {<<>>}] :
        Cardinality({g \in GroupIds : cr[g] # <<>>}) <= MaxCriteriaRefs}

NegatedChoices == {ng \in SUBSET GroupIds : Cardinality(ng) <= MaxNegated}

\* a group that is not reached from group 1, or has no children, is left AND, not negated
Plain(sh, cr, g) ==
    \/ g \notin ReachableFrom(sh, {1})
    \/ sh[g] = <<>> /\ cr[g] = <<>>

GroupPatient == YoungPatient

PolicyGroups ==
    [g \in 1..6 |->
        CASE g = 1 -> CriterionGroup(1, "AND", FALSE, <<"AGE_GE_18", "DIAG_CD">>, <<2>>)
          [] g = 2 -> CriterionGroup(2, "OR", FALSE, <<"STEP_MTX", "C_MISSING">>, <<7>>)
          [] g = 3 -> CriterionGroup(3, "AND", FALSE, <<"AGE_GE_65">>, <<>>)
          [] g = 4 -> CriterionGroup(4, "AND", FALSE, <<"C_MISSING">>, <<7>>)
          [] g = 5 -> CriterionGroup(5, "NOT", FALSE, <<"TB_SCREEN">>, <<5>>)
          [] g = 6 -> CriterionGroup(6, "AND", TRUE, <<"BIOMARKER", "BROKEN", "DOC">>, <<>>)]

\* root group ids of the indications; 7 is no key of PolicyGroups
RootIds == 1..7

Indications(roots) ==
    [i \in DOMAIN roots |->
        [indication_id |-> "IND_" \o ToString(i),
         indication_name |-> "Indication " \o ToString(roots[i]),
         initial_approval_criteria |-> roots[i]]]

ExclusionChoices ==
    {<<>>, <<[exclusion_id |-> "EXCL",
              trigger_criteria |-> <<"DIAG_CD", "C_MISSING", "BROKEN">>]>>}

StepTherapyChoices ==
    {<<>>, <<[requirement_id |-> "STEP", indication |-> "Crohn's disease",
              required_drugs |-> <<"methotrexate", "azathioprine">>,
              required_drug_classes |-> <<"corticosteroid">>,
              minimum_trials |-> 2, intolerance_acceptable |-> TRUE,
              contraindication_acceptable |-> FALSE]>>}

PolicyPatients == {EmptyPatient, YoungPatient, OlderPatient}

----------------------------------------------------------------------------
(* evaluate_policy: one step per call, indication and return *)

\* the call starts: indication_evaluations = []
BeginEvaluatePolicy ==
    /\ pc \in {"call_policy", "done"}
    /\ calls < MaxCalls
    /\ \E p \in PolicyPatients : patient' = p
    /\ indication_evaluations' = FreshList(indication_evaluations)
    /\ ind' = 1
    /\ pc' = "loop"
    /\ calls' = calls + 1
    /\ result' = None
    /\ ret' = None
    /\ maxDepth' = 0
    /\ steps' = 0
    /\ UNCHANGED <<serviceVars, combineVars, criterionVars, policy, stack, visited, seen>>

\* for indication in policy.indications: the root group resolves, evaluate_group is called
EvaluateIndication ==
    /\ pc = "loop"
    /\ ind <= Len(policy.indications)
    /\ LET root_group == get_group(policy, policy.indications[ind].initial_approval_criteria)
       IN /\ root_group # Nothing
          /\ Enter(root_group.value, FreshVisited)
    /\ steps' = steps + 1
    /\ UNCHANGED <<serviceVars, combineVars, criterionVars, patient, policy, ret, policyVars>>

\* for indication in policy.indications: the root group does not resolve, group_result is None
UnresolvedIndication ==
    /\ pc = "loop"
    /\ ind <= Len(policy.indications)
    /\ get_group(policy, policy.indications[ind].initial_approval_criteria) = Nothing
    /\ indication_evaluations' =
           Append(indication_evaluations, MkIndicationEvaluation(policy.indications[ind], None))
    /\ ind' = ind + 1
    /\ steps' = steps + 1
    /\ UNCHANGED <<serviceVars, combineVars, criterionVars, patient, policy, pc, groupVars, result, calls,
                   seen>>

\* evaluate_group returned: the IndicationEvaluation is appended
CollectIndication ==
    /\ pc = "collect"
    /\ indication_evaluations' =
           Append(indication_evaluations, MkIndicationEvaluation(policy.indications[ind], ret))
    /\ ind' = ind + 1
    /\ pc' = "loop"
    /\ steps' = steps + 1
    /\ UNCHANGED <<serviceVars, combineVars, criterionVars, patient, policy, groupVars, result, calls, seen>>

\* after the loop: exclusions, step therapy, readiness, overall verdict, gaps, return
ReturnPolicy ==
    /\ pc = "loop"
    /\ ind > Len(policy.indications)
    /\ IF AnyRaise(exclusion_evaluations(policy, patient))
       THEN /\ pc' = "raised"
            /\ UNCHANGED <<result, seen>>
       ELSE /\ result' = PolicyEvaluationResult(policy, patient, indication_evaluations)
            /\ seen' = [seen EXCEPT ![patient] = @ \cup {result'}]
            /\ pc' = "done"
    /\ steps' = steps + 1
    /\ UNCHANGED <<serviceVars, combineVars, criterionVars, patient, policy, groupVars, ind,
                   indication_evaluations, calls>>

----------------------------------------------------------------------------
(* Specifications *)

IdleCombine == verdicts = <<>> /\ operator = "AND" /\ negated = FALSE /\ combined = "pending"
IdleCriterion == criterion = None /\ evaluation = None
IdleGroup == stack = <<>> /\ visited = {} /\ ret = None /\ maxDepth = 0 /\ steps = 0
IdleStep == step_therapy_result = None
IdleRepository == rows = {} /\ clock = 0 /\ reply = None /\ stored = {}
IdlePipeline == raw = None /\ validated = None /\ skip_validation = FALSE /\ invoked = <<>>
IdleSessions == sessions = <<>>
IdleGet == request = None /\ files = None /\ opened = <<>> /\ phase = "idle"
IdleImpact ==
    /\ analysis = None /\ case_index = 0 /\ patient_impacts = <<>> /\ verdict_flips = 0
    /\ at_risk = 0 /\ evaluated_count = 0 /\ report = None
IdleGateway ==
    /\ task_category = None /\ provider_index = 0 /\ last_error = None /\ attempts = <<>>
    /\ clients = {}
IdleBack == IdleImpact /\ IdleGateway
IdleFront == IdleGet /\ IdleBack
IdleService == IdleStep /\ IdleRepository /\ IdlePipeline /\ IdleSessions /\ IdleFront
IdlePolicy ==
    /\ ind = 0 /\ indication_evaluations = <<>> /\ result = None /\ calls = 0
    /\ seen = [p \in PolicyPatients |-> {}]

\* _combine_verdicts on a list of child verdicts
InitCombine ==
    /\ verdicts \in SeqsUpTo(CriterionVerdict, MaxVerdicts)
    /\ operator \in LogicalOperator \cup {"XOR"}
    /\ negated \in BOOLEAN
    /\ combined = "pending"
    /\ pc = "call_combine"
    /\ patient = EmptyPatient
    /\ policy = None
    /\ IdleCriterion /\ IdleGroup /\ IdlePolicy /\ IdleService

CombineVerdicts ==
    /\ pc = "call_combine"
    /\ combined' = _combine_verdicts(verdicts, operator, negated)
    /\ pc' = "done"
    /\ UNCHANGED <<serviceVars, verdicts, operator, negated, criterionVars, patient, policy, steps,
                   groupVars, policyVars>>

NextCombine == CombineVerdicts

SpecCombine == InitCombine /\ [][NextCombine]_vars

\* evaluate_criterion on one criterion and one patient
InitCriterion ==
    /\ criterion \in CriterionFamily
    /\ patient \in CriterionPatients
    /\ evaluation = None
    /\ pc = "call_criterion"
    /\ policy = None
    /\ IdleCombine /\ IdleGroup /\ IdlePolicy /\ IdleService

EvaluateCriterion ==
    /\ pc = "call_criterion"
    /\ LET returned == evaluate_criterion(criterion, patient)
       IN IF IsRaise(returned)
          THEN pc' = "raised" /\ UNCHANGED evaluation
          ELSE pc' = "done" /\ evaluation' = returned
    /\ UNCHANGED <<serviceVars, combineVars, criterion, patient, policy, steps, groupVars, policyVars>>

NextCriterion == EvaluateCriterion

SpecCriterion == InitCriterion /\ [][NextCriterion]_vars

\* evaluate_group on group 1 of a generated policy
InitGroup ==
    /\ \E sh \in Shapes, cr \in CriteriaChoices :
         \E ops \in [GroupIds -> LogicalOperator], ng \in NegatedChoices :
            /\ \A g \in GroupIds : Plain(sh, cr, g) => ops[g] = "AND" /\ g \notin ng
            /\ \A g \in GroupIds \ ReachableFrom(sh, {1}) : cr[g] = <<>>
            /\ policy = DigitizedPolicy(
                   [g \in GroupIds |-> CriterionGroup(g, ops[g], g \in ng, cr[g], sh[g])],
                   <<>>, <<>>, <<>>)
    /\ patient = GroupPatient
    /\ pc = "call_group"
    /\ IdleCombine /\ IdleCriterion /\ IdleGroup /\ IdlePolicy /\ IdleService

NextGroup ==
    \/ StartGroup
    \/ EnterSubgroup
    \/ CycleSubgroup
    \/ SkipSubgroup
    \/ ReturnGroup

SpecGroup == InitGroup /\ [][NextGroup]_vars

\* evaluate_policy, called MaxCalls times on one policy
InitPolicy ==
    /\ \E roots \in SeqsUpTo(RootIds, MaxIndications) :
         \E excl \in ExclusionChoices, step \in StepTherapyChoices :
            policy = DigitizedPolicy(PolicyGroups, Indications(roots), excl, step)
    /\ patient = EmptyPatient
    /\ pc = "call_policy"
    /\ IdleCombine /\ IdleCriterion /\ IdleGroup /\ IdlePolicy /\ IdleService

NextPolicy ==
    \/ BeginEvaluatePolicy
    \/ EvaluateIndication
    \/ UnresolvedIndication
    \/ CollectIndication
    \/ EnterSubgroup
    \/ CycleSubgroup
    \/ SkipSubgroup
    \/ ReturnGroup
    \/ ReturnPolicy

SpecPolicy == InitPolicy /\ [][NextPolicy]_vars

----------------------------------------------------------------------------
(* Properties of _combine_verdicts *)

\* the child verdicts that are not NOT_APPLICABLE
Remaining(vs) == Range(vs) \ {NOT_APPLICABLE}

\* the AND / OR verdict as the specification words it, from the remaining verdicts
StatedCombination(op, remaining) ==
    IF remaining = {} THEN NOT_APPLICABLE
    ELSE IF op = "AND"
    THEN (IF remaining = {MET} THEN MET
          ELSE IF NOT_MET \in remaining THEN NOT_MET
          ELSE INSUFFICIENT_DATA)
    ELSE (IF MET \in remaining THEN MET
          ELSE IF remaining = {NOT_MET} THEN NOT_MET
          ELSE INSUFFICIENT_DATA)

Swapped(v) == CASE v = MET -> NOT_MET [] v = NOT_MET -> MET [] OTHER -> v

\* C1 as stated: for every AND or OR group the verdict is the stated combination of the
\* child verdicts that are not NOT_APPLICABLE (the negated flag is not mentioned).
C1_AsStated ==
    (pc = "done" /\ operator \in {"AND", "OR"})
        => combined = StatedCombination(operator, Remaining(verdicts))

\* C1: for an AND or OR group the verdict is the stated combination of the child verdicts
\* that are not NOT_APPLICABLE when negated is false, and that combination with MET and
\* NOT_MET swapped when negated is true; AND of {MET, NOT_APPLICABLE} is MET and AND of
\* {MET, INSUFFICIENT_DATA} is INSUFFICIENT_DATA for a group that is not negated.
C1_Combination ==
    (pc = "done" /\ operator \in {"AND", "OR"}) =>
        /\ ~negated => combined = StatedCombination(operator, Remaining(verdicts))
        /\ negated => combined = Swapped(StatedCombination(operator, Remaining(verdicts)))
        /\ (operator = "AND" /\ ~negated /\ Range(verdicts) = {MET, NOT_APPLICABLE})
              => combined = MET
        /\ (operator = "AND" /\ ~negated /\ Range(verdicts) = {MET, INSUFFICIENT_DATA})
              => combined = INSUFFICIENT_DATA

\* a negated AND group over MET and NOT_APPLICABLE has been combined to NOT_MET
C1_Witness ==
    /\ pc = "done" /\ operator = "AND" /\ negated
    /\ verdicts = <<MET, NOT_APPLICABLE>>
    /\ combined = NOT_MET

----------------------------------------------------------------------------
(* Properties of evaluate_group *)

CircularReasoning == "Circular group reference detected"
IsCircular(node) == node.reasoning = CircularReasoning

\* the verdicts of the children of a GroupEvaluation: criteria, then subgroups
ChildVerdicts(node) ==
    [i \in DOMAIN node.criteria_results |-> node.criteria_results[i].verdict]
    \o [i \in DOMAIN node.subgroup_results |-> node.subgroup_results[i].verdict]

RECURSIVE NodeSeq(_)
\* the GroupEvaluations of a result tree, parents before children
NodeSeq(node) ==
    <<node>> \o Concat([i \in DOMAIN node.subgroup_results |-> NodeSeq(node.subgroup_results[i])])

\* for each group id, its subgroup ids that resolve, in list order
Subgroups(pol) ==
    [g \in DOMAIN pol.criterion_groups |->
        SelectSeq(pol.criterion_groups[g].subgroups,
                  LAMBDA h : h \in DOMAIN pol.criterion_groups)]

\* g reaches itself through the subgroups relation
OnCycle(pol, g) == g \in ReachableFrom(Subgroups(pol), Range(Subgroups(pol)[g]))

Root == policy.criterion_groups[1]
RootOnCycle == OnCycle(policy, 1)
Acyclic == \A g \in ReachableFrom(Subgroups(policy), {1}) : ~OnCycle(policy, g)

\* the NOT verdict as the specification words it: NOT_APPLICABLE children dropped first
StatedNot(vs) ==
    LET remaining == SelectSeq(vs, LAMBDA v : v # NOT_APPLICABLE)
    IN IF remaining = <<>> THEN NOT_APPLICABLE ELSE Swapped(remaining[1])

\* C2 as stated: a NOT group (not negated) drops its NOT_APPLICABLE children and is decided
\* by the first remaining child verdict: MET gives NOT_MET, NOT_MET gives MET,
\* INSUFFICIENT_DATA gives INSUFFICIENT_DATA.
C2_AsStated ==
    (pc = "done" /\ Root.operator = "NOT" /\ ~Root.negated)
        => ret.verdict = StatedNot(ChildVerdicts(ret))

\* C3 as stated: a group that reaches itself through the subgroups relation evaluates to
\* INSUFFICIENT_DATA with the circular-reference reasoning.
C3_AsStated ==
    (pc = "done" /\ RootOnCycle)
        => ret.verdict = INSUFFICIENT_DATA /\ ret.reasoning = CircularReasoning

RECURSIVE WellPlaced(_, _)
\* in the result tree below node, reached through the group ids of path: a group that is
\* on the path again is a childless INSUFFICIENT_DATA result with the circular reasoning,
\* every other group is a result without it
WellPlaced(node, path) ==
    IF node.group_id \in path
    THEN /\ IsCircular(node) /\ node.verdict = INSUFFICIENT_DATA
         /\ node.criteria_results = <<>> /\ node.subgroup_results = <<>>
    ELSE /\ node.reasoning = ""
         /\ node.verdict = _combine_verdicts(ChildVerdicts(node),
                               policy.criterion_groups[node.group_id].operator,
                               policy.criterion_groups[node.group_id].negated)
         /\ \A i \in DOMAIN node.subgroup_results :
               WellPlaced(node.subgroup_results[i], path \cup {node.group_id})

\* C3: when group G reaches itself through the subgroups relation, the result of
\* evaluate_group(G) carries the circular-reference verdict exactly at the nested places
\* where a group already on the recursion path is referenced again (INSUFFICIENT_DATA,
\* the circular reasoning, no children), at least one of them for G; G's own result has
\* empty reasoning and the verdict its operator and negated flag give its children.
C3_CircularSubtree ==
    (pc = "done" /\ RootOnCycle) =>
        /\ WellPlaced(ret, {})
        /\ \E i \in DOMAIN NodeSeq(ret) :
              IsCircular(NodeSeq(ret)[i]) /\ NodeSeq(ret)[i].group_id = 1
        /\ ret.reasoning = ""

\* an OR group that lists itself and a criterion that is met has evaluated to MET
C3_Witness ==
    /\ pc = "done" /\ RootOnCycle
    /\ Root.operator = "OR" /\ 1 \in Range(Root.subgroups)
    /\ ret.verdict = MET
    /\ \E i \in DOMAIN ret.subgroup_results : IsCircular(ret.subgroup_results[i])

\* the claim's own example has been evaluated: a NOT group whose first child is
\* NOT_APPLICABLE and whose second child is MET came out NOT_APPLICABLE
C2_FailingInput ==
    /\ pc = "done" /\ Root.operator = "NOT" /\ ~Root.negated
    /\ ChildVerdicts(ret) = <<NOT_APPLICABLE, MET>>
    /\ ret.verdict = NOT_APPLICABLE

RECURSIVE GeometricSum(_, _)
\* 1 + m + ... + m^(n-1)
GeometricSum(m, n) == IF n = 0 THEN 0 ELSE 1 + m * GeometricSum(m, n - 1)

\* steps of one evaluate_group call on a policy of n groups with at most m subgroup
\* references each: one entry, one return and at most m loop turns per invocation
StepBound(n, m) == (m + 2) * GeometricSum(m, n)

GroupCount == Cardinality(DOMAIN policy.criterion_groups)

\* C4: evaluate_group terminates on every policy, cyclic ones included: no group id is on
\* the recursion path twice, the depth (the invocation that finds the cycle included)
\* never exceeds the number of groups plus one, every unfinished call can take a step,
\* and the number of steps is bounded.
C4_Terminates ==
    /\ \A i, j \in DOMAIN stack : stack[i].group_id = stack[j].group_id => i = j
    /\ visited = {stack[i].group_id : i \in DOMAIN stack}
    /\ Len(stack) <= GroupCount
    /\ maxDepth <= GroupCount + 1
    /\ steps <= StepBound(GroupCount, MaxSubgroups)
    /\ pc \in {"call_group", "group"} => ENABLED NextGroup
    /\ pc \in {"call_group", "group", "done"}

\* a cycle through every group has been evaluated to the end: the recursion went as deep
\* as the number of groups plus one
C4_Witness ==
    /\ pc = "done" /\ RootOnCycle
    /\ maxDepth = GroupCount + 1
    /\ \E i \in DOMAIN NodeSeq(ret) : IsCircular(NodeSeq(ret)[i])

RECURSIVE Sum(_)
Sum(ns) == IF ns = <<>> THEN 0 ELSE Head(ns) + Sum(Tail(ns))

RECURSIVE PathCount(_, _, _)
\* the paths from group g to group h along resolved subgroup references (acyclic policies)
PathCount(pol, g, h) ==
    IF g = h THEN 1
    ELSE Sum([i \in DOMAIN Subgroups(pol)[g] |-> PathCount(pol, Subgroups(pol)[g][i], h)])

RECURSIVE StandaloneVerdict(_, _, _)
\* the verdict of group g evaluated on its own (acyclic policies)
StandaloneVerdict(pol, p, g) ==
    LET criteria == CriteriaResults(pol, p, pol.criterion_groups[g])
    IN _combine_verdicts(
           [i \in DOMAIN criteria |-> criteria[i].verdict]
               \o [i \in DOMAIN Subgroups(pol)[g] |->
                      StandaloneVerdict(pol, p, Subgroups(pol)[g][i])],
           pol.criterion_groups[g].operator, pol.criterion_groups[g].negated)

Occurrences(g) == Len(SelectSeq(NodeSeq(ret), LAMBDA node : node.group_id = g))

\* C5: on an acyclic policy no GroupEvaluation carries the circular-reference verdict; a
\* group reached from the root through k paths is evaluated k times, each time with the
\* verdict it gets on its own; and whenever an invocation has returned, the visited set is
\* the set it was called with.
C5_Diamond ==
    /\ (pc = "done" /\ Acyclic) =>
          /\ \A i \in DOMAIN NodeSeq(ret) :
                /\ ~IsCircular(NodeSeq(ret)[i])
                /\ NodeSeq(ret)[i].verdict
                      = StandaloneVerdict(policy, patient, NodeSeq(ret)[i].group_id)
          /\ \A g \in DOMAIN policy.criterion_groups : Occurrences(g) = PathCount(policy, 1, g)
    /\ stack # <<>> => visited = Top.entered_with \cup {Top.group_id}
    /\ \A i \in 2..Len(stack) :
          stack[i].entered_with = stack[i - 1].entered_with \cup {stack[i - 1].group_id}
    /\ pc = "done" => visited = FreshVisited

\* a diamond has been evaluated: a group below the root appears twice in the result
C5_Witness ==
    /\ pc = "done" /\ Acyclic
    /\ \E g \in DOMAIN policy.criterion_groups :
          /\ g # 1 /\ Occurrences(g) = 2
          /\ \E h \in DOMAIN policy.criterion_groups :
                h \notin {1, g} /\ g \in Range(Subgroups(policy)[h])

----------------------------------------------------------------------------
(* Properties of evaluate_criterion *)

\* some screening of the patient matches the criterion
HasMatchingScreening(c, p) ==
    /\ c.description # None
    /\ \E i \in DOMAIN p.completed_screenings : ScreeningMatches(c, p.completed_screenings[i])

\* some screening of the patient matches the criterion and is not completed
HasPendingScreening(c, p) ==
    /\ c.description # None
    /\ \E i \in DOMAIN p.completed_screenings :
          /\ ScreeningMatches(c, p.completed_screenings[i])
          /\ ~p.completed_screenings[i].completed

\* C6: for an empty patient evaluate_criterion returns INSUFFICIENT_DATA or
\* NOT_APPLICABLE for every criterion type, never MET or NOT_MET; for
\* safety_screening_completed a patient with no matching screening gets
\* INSUFFICIENT_DATA, and NOT_MET is returned only when a matching screening is present
\* and not completed.
C6_MissingData ==
    pc = "done" =>
        /\ IsEmptyPatient(patient)
              => evaluation.verdict \in {INSUFFICIENT_DATA, NOT_APPLICABLE}
        /\ (criterion.criterion_type = "safety_screening_completed"
            /\ ~HasMatchingScreening(criterion, patient))
              => evaluation.verdict = INSUFFICIENT_DATA
        /\ (criterion.criterion_type = "safety_screening_completed"
            /\ evaluation.verdict = NOT_MET)
              => HasPendingScreening(criterion, patient)

\* a safety_screening_completed criterion for tuberculosis has been evaluated on a patient
\* whose only screening is for hepatitis B, with verdict INSUFFICIENT_DATA
C6_Witness ==
    /\ pc = "done"
    /\ criterion.criterion_type = "safety_screening_completed"
    /\ criterion.description # None
    /\ patient = OtherScreeningPatient
    /\ ~HasMatchingScreening(criterion, patient)
    /\ evaluation.verdict = INSUFFICIENT_DATA
    /\ evaluation.reasoning = "Screening not found"

----------------------------------------------------------------------------
(* Properties of evaluate_policy *)

\* the GroupEvaluations of the result trees of all indications
ResultNodes(res) ==
    Concat([i \in DOMAIN res.indication_evaluations |->
               IF res.indication_evaluations[i].approval_criteria_result = None THEN <<>>
               ELSE NodeSeq(res.indication_evaluations[i].approval_criteria_result)])

\* every CriterionEvaluation of a result: those of the trees, then those of the exclusions
ResultEvaluations(res) ==
    Concat([i \in DOMAIN res.indication_evaluations |->
               _collect_all_criteria_evals(res.indication_evaluations[i].approval_criteria_result)])
    \o res.exclusion_evaluations

\* the criterion has no registered evaluator, or its evaluator raises for the patient
Faulty(c, p) ==
    IF c.criterion_type \notin RegisteredTypes THEN TRUE
    ELSE IsRaise(RunEvaluator(c.criterion_type, c, p))

\* the criterion ids of a list that resolve in the policy, in list order
ResolvedCriteria(pol, ids) == SelectSeq(ids, LAMBDA cid : cid \in DOMAIN pol.atomic_criteria)

CriterionIds(evals) == [i \in DOMAIN evals |-> evals[i].criterion_id]

\* the trigger criteria of all exclusions, in order
TriggerCriteria(pol) ==
    Concat([i \in DOMAIN pol.exclusions |-> pol.exclusions[i].trigger_criteria])

\* a node of a result tree holds one evaluation per resolved criterion of its group and
\* one result per resolved subgroup, in declaration order
FullyEvaluated(pol, node) ==
    LET group == pol.criterion_groups[node.group_id]
    IN /\ CriterionIds(node.criteria_results) = ResolvedCriteria(pol, group.criteria)
       /\ [i \in DOMAIN node.subgroup_results |-> node.subgroup_results[i].group_id]
             = Subgroups(pol)[node.group_id]

\* C7: a criterion whose type has no registered evaluator, or whose evaluator raises, is
\* evaluated to INSUFFICIENT_DATA and nothing is raised; every other criterion, group,
\* indication and exclusion is still evaluated, step therapy too, and evaluate_policy
\* returns a result.
C7_Isolated ==
    /\ pc # "raised"
    /\ pc = "done" =>
          /\ result # None
          /\ Len(result.indication_evaluations) = Len(policy.indications)
          /\ \A i \in DOMAIN ResultEvaluations(result) :
                LET e == ResultEvaluations(result)[i]
                IN Faulty(policy.atomic_criteria[e.criterion_id], patient)
                      => e.verdict = INSUFFICIENT_DATA
          /\ \A i \in DOMAIN ResultNodes(result) :
                IsCircular(ResultNodes(result)[i])
                   \/ FullyEvaluated(policy, ResultNodes(result)[i])
          /\ CriterionIds(result.exclusion_evaluations)
                = ResolvedCriteria(policy, TriggerCriteria(policy))
          /\ Len(result.step_therapy_evaluation.details)
                = Len(policy.step_therapy_requirements)

\* evaluate_policy returned for a patient with a prescriber specialty and a policy whose
\* first indication holds a criterion of an unregistered type, then one whose evaluator
\* raises AttributeError, then one that is evaluated; a second indication, the
\* exclusions and step therapy were evaluated after it
C7_Witness ==
    /\ pc = "done" /\ patient = YoungPatient
    /\ Len(result.indication_evaluations) = 2
    /\ LET node == result.indication_evaluations[1].approval_criteria_result
       IN /\ node # None
          /\ CriterionIds(node.criteria_results) = <<"BIOMARKER", "BROKEN", "DOC">>
          /\ node.criteria_results[1].reasoning
                = "No evaluator registered for type 'biomarker_present'"
          /\ node.criteria_results[2].reasoning = "Evaluation error: AttributeError"
          /\ node.criteria_results[3].reasoning
                = "Documentation presence requires manual verification"
    /\ result.indication_evaluations[2].overall_verdict = MET
    /\ Len(result.exclusion_evaluations) = 2
    /\ result.exclusion_evaluations[2].reasoning = "Evaluation error: AttributeError"
    /\ policy.step_therapy_requirements # <<>>

\* the gaps of one indication as the specification orders them: one per evaluation with
\* INSUFFICIENT_DATA, then one per required evaluation with NOT_MET, each in tree order
StatedGaps(ie) ==
    LET evals == _collect_all_criteria_evals(ie.approval_criteria_result)
        Key(e, gap_type) == <<ie.indication_name, e.criterion_id, gap_type>>
        insufficient == SelectSeq(evals, LAMBDA e : e.verdict = INSUFFICIENT_DATA)
        unmet == SelectSeq(evals, LAMBDA e : e.verdict = NOT_MET /\ e.is_required)
    IN [i \in DOMAIN insufficient |-> Key(insufficient[i], "insufficient_data")]
       \o [i \in DOMAIN unmet |-> Key(unmet[i], "not_met")]

GapKeys(gs) == [i \in DOMAIN gs |-> <<gs[i].indication, gs[i].criterion_id, gs[i].gap_type>>]

\* C8: evaluate_policy keeps no state between calls: all the calls made on one policy with
\* one patient, whatever was evaluated in between, return equal results; the
\* indication_evaluations follow policy.indications, the criteria evaluations of a group
\* come before those of its subgroups, and the gaps follow the indications.
C8_Deterministic ==
    /\ \A p \in PolicyPatients : Cardinality(seen[p]) <= 1
    /\ pc = "done" =>
          /\ [i \in DOMAIN result.indication_evaluations |->
                 result.indication_evaluations[i].indication_id]
                = [i \in DOMAIN policy.indications |-> policy.indications[i].indication_id]
          /\ \A i \in DOMAIN ResultNodes(result) :
                LET node == ResultNodes(result)[i]
                IN SubSeq(_collect_all_criteria_evals(node), 1, Len(node.criteria_results))
                      = node.criteria_results
          /\ GapKeys(result.gaps)
                = Concat([i \in DOMAIN result.indication_evaluations |->
                             StatedGaps(result.indication_evaluations[i])])

\* the third call has returned, for a patient evaluated before, with two indications and
\* gaps of both kinds; another patient has been evaluated as well
C8_Witness ==
    /\ pc = "done" /\ calls = 3
    /\ seen[patient] = {result}
    /\ \E p, q \in PolicyPatients \ {patient} : seen[p] # {} /\ seen[q] = {}
    /\ Len(result.indication_evaluations) = 2
    /\ \E i, j \in DOMAIN result.gaps :
          /\ i < j
          /\ result.gaps[i].gap_type = "insufficient_data"
          /\ result.gaps[j].gap_type = "not_met"
    /\ \E i \in DOMAIN ResultNodes(result) :
          /\ ResultNodes(result)[i].criteria_results # <<>>
          /\ ResultNodes(result)[i].subgroup_results # <<>>

\* the verdicts of the indications of a result
IndicationVerdicts(res) ==
    {res.indication_evaluations[i].overall_verdict : i \in DOMAIN res.indication_evaluations}

\* the best verdict of a set under MET > INSUFFICIENT_DATA > NOT_MET, NOT_APPLICABLE when
\* the set holds none of the three
BestOf(vs) ==
    IF MET \in vs THEN MET
    ELSE IF INSUFFICIENT_DATA \in vs THEN INSUFFICIENT_DATA
    ELSE IF NOT_MET \in vs THEN NOT_MET
    ELSE NOT_APPLICABLE

\* C9 as stated: overall_verdict is the best indication verdict under
\* MET > INSUFFICIENT_DATA > NOT_MET, and NOT_APPLICABLE when no indication produced one
\* of the three, a policy with no indications included.
C9_AsStated ==
    pc = "done" => result.overall_verdict = BestOf(IndicationVerdicts(result))

\* C9: for a policy with at least one indication overall_verdict is the best indication
\* verdict under MET > INSUFFICIENT_DATA > NOT_MET, whatever the order of the
\* indications, and NOT_APPLICABLE when no indication produced one of the three; for a
\* policy with no indications it is INSUFFICIENT_DATA.
C9_BestVerdict ==
    pc = "done" =>
        /\ policy.indications # <<>>
              => result.overall_verdict = BestOf(IndicationVerdicts(result))
        /\ policy.indications = <<>> => result.overall_verdict = INSUFFICIENT_DATA

\* evaluate_policy returned for a policy with no indications
C9_Witness ==
    /\ pc = "done" /\ policy.indications = <<>>
    /\ result.indication_evaluations = <<>>
    /\ result.overall_verdict = INSUFFICIENT_DATA

\* the children of a result node that resolve are all that contributes to it
OnlyResolvedChildren(pol, node) ==
    LET group == pol.criterion_groups[node.group_id]
    IN /\ Len(node.criteria_results) = Len(ResolvedCriteria(pol, group.criteria))
       /\ Len(node.subgroup_results) = Len(Subgroups(pol)[node.group_id])
       /\ (ResolvedCriteria(pol, group.criteria) = <<>> /\ Subgroups(pol)[node.group_id] = <<>>)
             => node.verdict = NOT_APPLICABLE

UnresolvedRoot(pol, i) ==
    pol.indications[i].initial_approval_criteria \notin DOMAIN pol.criterion_groups

\* the part of C10 about groups, and that nothing is raised
NoVerdictFromUnresolved ==
    /\ pc # "raised"
    /\ pc = "done" =>
          \A i \in DOMAIN ResultNodes(result) :
             IsCircular(ResultNodes(result)[i])
                \/ OnlyResolvedChildren(policy, ResultNodes(result)[i])

\* the indications whose root group id does not resolve have the given verdict, no
\* group result and no counted criteria
UnresolvedRootsGet(v) ==
    pc = "done" =>
        \A i \in DOMAIN policy.indications :
           UnresolvedRoot(policy, i) =>
              /\ result.indication_evaluations[i].overall_verdict = v
              /\ result.indication_evaluations[i].approval_criteria_result = None
              /\ result.indication_evaluations[i].criteria_total_count = 0
              /\ result.indication_evaluations[i].criteria_met_count = 0

\* C10 as stated: unresolved references never raise; a criterion id or subgroup id that
\* does not resolve contributes no verdict to its group, a group with only unresolved
\* children is NOT_APPLICABLE, and an indication whose root group id does not resolve
\* gets overall_verdict NOT_APPLICABLE with zero counted criteria.
C10_AsStated == NoVerdictFromUnresolved /\ UnresolvedRootsGet(NOT_APPLICABLE)

\* C10: unresolved references never raise; a criterion id or subgroup id that does not
\* resolve contributes no verdict to its group, a group with only unresolved children
\* is NOT_APPLICABLE, and an indication whose root group id does not resolve gets
\* overall_verdict INSUFFICIENT_DATA with no group result and zero counted criteria.
C10_Unresolved == NoVerdictFromUnresolved /\ UnresolvedRootsGet(INSUFFICIENT_DATA)

\* evaluate_policy returned for a policy whose first indication names a root group that
\* does not resolve and whose second indication names a group with only unresolved
\* children
C10_Witness ==
    /\ pc = "done"
    /\ Len(policy.indications) = 2
    /\ UnresolvedRoot(policy, 1)
    /\ result.indication_evaluations[1].overall_verdict = INSUFFICIENT_DATA
    /\ result.indication_evaluations[1].criteria_total_count = 0
    /\ policy.indications[2].initial_approval_criteria = 4
    /\ result.indication_evaluations[2].approval_criteria_result.criteria_results = <<>>
    /\ result.indication_evaluations[2].approval_criteria_result.subgroup_results = <<>>
    /\ result.indication_evaluations[2].overall_verdict = NOT_APPLICABLE
    /\ result.overall_verdict = INSUFFICIENT_DATA

----------------------------------------------------------------------------
(* Properties of the threshold evaluators *)

\* _find_lab_result finds a lab result of the patient for the criterion, and it has a value
HasNumericLab(c, p) ==
    LET Found(lab) == ~IsRaise(lab) /\ lab # Nothing /\ lab.value.value # None
    IN p.lab_results # <<>> /\ Found(_find_lab_result(c, p))

\* C11 as stated: a criterion of type age or lab_value whose threshold_value is unset
\* evaluates to INSUFFICIENT_DATA for every patient.
C11_AsStated ==
    (pc = "done" /\ criterion.threshold_value = None
     /\ criterion.criterion_type \in {"age", "lab_value"})
        => evaluation.verdict = INSUFFICIENT_DATA

\* C11: a criterion of type age whose threshold_value is unset evaluates to
\* INSUFFICIENT_DATA for every patient; a criterion of type lab_value whose
\* threshold_value is unset evaluates to MET when the patient has a matching lab result
\* with a value and to INSUFFICIENT_DATA otherwise; neither is ever NOT_MET.
C11_NoThreshold ==
    (pc = "done" /\ criterion.threshold_value = None) =>
        /\ criterion.criterion_type = "age" => evaluation.verdict = INSUFFICIENT_DATA
        /\ criterion.criterion_type = "lab_value" =>
              evaluation.verdict =
                 IF HasNumericLab(criterion, patient) THEN MET ELSE INSUFFICIENT_DATA

\* a lab_value criterion without threshold has been evaluated on a patient whose CRP
\* result has a value: the verdict is MET
C11_Witness ==
    /\ pc = "done"
    /\ criterion.criterion_type = "lab_value" /\ criterion.threshold_value = None
    /\ patient = YoungPatient
    /\ HasNumericLab(criterion, patient)
    /\ evaluation.verdict = MET
    /\ evaluation.reasoning = "Lab present; no threshold to compare"

----------------------------------------------------------------------------
(* Properties of the gaps, the readiness and the counts of evaluate_policy *)

\* the criterion evaluations of the result tree of an indication evaluation
TreeEvaluations(ie) == _collect_all_criteria_evals(ie.approval_criteria_result)

\* how many elements of a sequence satisfy Test
Count(seq, Test(_)) == Cardinality({i \in DOMAIN seq : Test(seq[i])})

\* the gaps of a result that belong to the i-th indication: those after the gaps of the
\* indications before it
GapsOf(res, i) ==
    LET Size(j) == Len(res.indication_evaluations[j].insufficient_criteria)
                   + Count(res.indication_evaluations[j].unmet_criteria,
                           LAMBDA e : e.is_required)
        before == Sum([j \in 1..(i - 1) |-> Size(j)])
    IN SubSeq(res.gaps, before + 1, before + Size(i))

\* C12: gaps holds, per indication in policy order, one insufficient_data entry for each
\* INSUFFICIENT_DATA criterion evaluation of the indication's tree, then one not_met
\* entry for each NOT_MET evaluation with is_required true; NOT_MET evaluations that are
\* not required, MET evaluations, exclusion evaluations and step therapy add no entry.
C12_Gaps ==
    pc = "done" =>
        /\ Len(result.gaps) =
              Sum([i \in DOMAIN result.indication_evaluations |->
                      Count(TreeEvaluations(result.indication_evaluations[i]),
                            LAMBDA e : e.verdict = INSUFFICIENT_DATA
                                       \/ (e.verdict = NOT_MET /\ e.is_required))])
        /\ \A i \in DOMAIN result.indication_evaluations :
              LET ie == result.indication_evaluations[i]
                  mine == GapsOf(result, i)
                  insufficient == SelectSeq(TreeEvaluations(ie),
                                            LAMBDA e : e.verdict = INSUFFICIENT_DATA)
                  unmet == SelectSeq(TreeEvaluations(ie),
                                     LAMBDA e : e.verdict = NOT_MET /\ e.is_required)
              IN /\ Len(mine) = Len(insufficient) + Len(unmet)
                 /\ \A k \in DOMAIN mine : mine[k].indication = ie.indication_name
                 /\ \A k \in DOMAIN insufficient :
                       /\ mine[k].gap_type = "insufficient_data"
                       /\ mine[k].criterion_id = insufficient[k].criterion_id
                       /\ mine[k].action
                             = "Obtain documentation for: " \o insufficient[k].criterion_name
                 /\ \A k \in DOMAIN unmet :
                       /\ mine[Len(insufficient) + k].gap_type = "not_met"
                       /\ mine[Len(insufficient) + k].criterion_id = unmet[k].criterion_id
                       /\ mine[Len(insufficient) + k].action
                             = "Address unmet criterion: " \o unmet[k].criterion_name

\* evaluate_policy returned a result with a NOT_MET evaluation that is not required and
\* has no gap, a MET evaluation, an INSUFFICIENT_DATA exclusion evaluation, fewer gaps
\* than gap-worthy evaluations in the trees and exclusions together, and gaps of
\* both types
C12_Witness ==
    /\ pc = "done"
    /\ policy.step_therapy_requirements # <<>>
    /\ \E i \in DOMAIN result.indication_evaluations :
          \E k \in DOMAIN TreeEvaluations(result.indication_evaluations[i]) :
             LET e == TreeEvaluations(result.indication_evaluations[i])[k]
             IN /\ e.verdict = NOT_MET /\ ~e.is_required
                /\ \A g \in DOMAIN result.gaps : result.gaps[g].criterion_id # e.criterion_id
    /\ \E i \in DOMAIN result.indication_evaluations :
          result.indication_evaluations[i].criteria_met_count > 0
    /\ \E x \in DOMAIN result.exclusion_evaluations :
          result.exclusion_evaluations[x].verdict = INSUFFICIENT_DATA
    /\ Len(result.gaps) < Count(ResultEvaluations(result),
                                LAMBDA e : e.verdict = INSUFFICIENT_DATA
                                           \/ (e.verdict = NOT_MET /\ e.is_required))
    /\ \E g, h \in DOMAIN result.gaps :
          result.gaps[g].gap_type = "insufficient_data" /\ result.gaps[h].gap_type = "not_met"

\* total: every criterion evaluation of every node of every indication's result tree
TotalEvaluations(res) ==
    Sum([i \in DOMAIN ResultNodes(res) |-> Len(ResultNodes(res)[i].criteria_results)])

\* met: those of them whose verdict is MET
MetEvaluations(res) ==
    Sum([i \in DOMAIN ResultNodes(res) |->
            Count(ResultNodes(res)[i].criteria_results, LAMBDA e : e.verdict = MET)])

\* the counts of each indication add up, and met is between 0 and total
CountsAddUp(res) ==
    /\ 0 <= MetEvaluations(res) /\ MetEvaluations(res) <= TotalEvaluations(res)
    /\ \A i \in DOMAIN res.indication_evaluations :
          LET ie == res.indication_evaluations[i]
          IN /\ ie.criteria_total_count = Len(TreeEvaluations(ie))
             /\ ie.criteria_met_count + Len(ie.unmet_criteria) + Len(ie.insufficient_criteria)
                   = ie.criteria_total_count

\* C13 as stated: overall_readiness (held in thousandths) equals met/total, 0 when total
\* is 0, and the counts of each indication add up.
C13_AsStated ==
    pc = "done" =>
        /\ result.overall_readiness * TotalEvaluations(result) = 1000 * MetEvaluations(result)
        /\ TotalEvaluations(result) = 0 => result.overall_readiness = 0
        /\ CountsAddUp(result)

\* C13: overall_readiness is met/total rounded to three decimals (held in thousandths: the
\* whole number of thousandths nearest to met/total), where total counts every
\* criterion evaluation in every indication's tree once per path and per indication and
\* met those with verdict MET; it is 0 when total is 0 and lies between 0 and 1; for
\* each indication criteria_met_count + |unmet_criteria| + |insufficient_criteria| =
\* criteria_total_count.
C13_Readiness ==
    pc = "done" =>
        /\ 2 * (result.overall_readiness * TotalEvaluations(result)
                - 1000 * MetEvaluations(result)) <= TotalEvaluations(result)
        /\ 2 * (1000 * MetEvaluations(result)
                - result.overall_readiness * TotalEvaluations(result)) <= TotalEvaluations(result)
        /\ TotalEvaluations(result) = 0 => result.overall_readiness = 0
        /\ 0 <= result.overall_readiness /\ result.overall_readiness <= 1000
        /\ CountsAddUp(result)

\* evaluate_policy returned a result with six criterion evaluations in its trees, one of
\* them MET: the readiness is 0.167
C13_Witness ==
    /\ pc = "done"
    /\ TotalEvaluations(result) = 6 /\ MetEvaluations(result) = 1
    /\ result.overall_readiness = 167
    /\ \E i \in DOMAIN result.indication_evaluations :
          /\ result.indication_evaluations[i].criteria_met_count = 1
          /\ result.indication_evaluations[i].unmet_criteria # <<>>

----------------------------------------------------------------------------
(* evaluate_step_therapy on its own: requirements and treatment histories *)

MaxTreatments == 2
MaxTrials == 2

StepDrugs ==
    {[name |-> "Methotrexate", class |-> <<"immunomodulator">>],
     [name |-> "Azathioprine", class |-> None],
     [name |-> "Prednisone", class |-> <<"Corticosteroid">>]}

StepOutcomes == {None, <<"steroid_dependent">>, <<"intolerant">>, <<"contraindicated">>}

StepTreatments ==
    {NormalizedTreatment(d.name, d.class, None, o) : d \in StepDrugs, o \in StepOutcomes}

StepTherapyRequirement(required_drugs, required_drug_classes, minimum_trials,
                       intolerance_acceptable, contraindication_acceptable) ==
    [requirement_id |-> "STEP", indication |-> "Crohn's disease",
     required_drugs |-> required_drugs, required_drug_classes |-> required_drug_classes,
     minimum_trials |-> minimum_trials, intolerance_acceptable |-> intolerance_acceptable,
     contraindication_acceptable |-> contraindication_acceptable]

StepRequirements ==
    {StepTherapyRequirement(ds, cs, m, acc[1], acc[2]) :
        ds \in {<<>>, <<"methotrexate">>, <<"Methotrexate", "azathioprine">>},
        cs \in {<<>>, <<"corticosteroid">>},
        m \in 0..MaxTrials, acc \in {<<TRUE, FALSE>>, <<FALSE, TRUE>>}}

\* a second requirement of the policy: one failed trial of azathioprine
SecondRequirement == StepTherapyRequirement(<<"azathioprine">>, <<>>, 1, FALSE, FALSE)

StepRequirementLists ==
    {<<>>} \cup {<<r>> : r \in StepRequirements}
           \cup {<<r, SecondRequirement>> :
                    r \in {q \in StepRequirements : q.required_drug_classes = <<>>}}

InitStep ==
    /\ \E reqs \in StepRequirementLists : policy = DigitizedPolicy(PolicyGroups, <<>>, <<>>, reqs)
    /\ \E txs \in SeqsUpTo(StepTreatments, MaxTreatments) :
          patient = [EmptyPatient EXCEPT !.prior_treatments = txs]
    /\ pc = "call_step"
    /\ IdleCombine /\ IdleCriterion /\ IdleGroup /\ IdlePolicy /\ IdleService

EvaluateStepTherapy ==
    /\ pc = "call_step"
    /\ step_therapy_result' = evaluate_step_therapy(policy, patient)
    /\ pc' = "done"
    /\ UNCHANGED <<combineVars, criterionVars, patient, policy, steps, groupVars, policyVars,
                   repoVars, pipeVars, sessVars, frontVars>>

NextStep == EvaluateStepTherapy

SpecStep == InitStep /\ [][NextStep]_vars

----------------------------------------------------------------------------
(* Properties of evaluate_step_therapy *)

RequiredItems(req) == req.required_drugs \o req.required_drug_classes

\* the positions of the required items that some treatment of the history matches
TriedItems(req, txs) ==
    {j \in DOMAIN RequiredItems(req) :
        \E k \in DOMAIN txs : StepHit(RequiredItems(req)[j], txs[k])}

\* the outcome counts as a failure for the requirement
CountsAsFailed(req, tx) ==
    \/ tx.outcome \in {<<"failed">>, <<"inadequate_response">>, <<"partial_response">>,
                       <<"steroid_dependent">>}
    \/ tx.outcome = <<"intolerant">> /\ req.intolerance_acceptable
    \/ tx.outcome = <<"contraindicated">> /\ req.contraindication_acceptable

\* the positions of the required items whose first matching treatment counts as failed
FailedItems(req, txs) ==
    {j \in DOMAIN RequiredItems(req) :
        \E k \in DOMAIN txs :
           /\ StepHit(RequiredItems(req)[j], txs[k])
           /\ \A h \in 1..(k - 1) : ~StepHit(RequiredItems(req)[j], txs[h])
           /\ CountsAsFailed(req, txs[k])}

\* C14: each required drug or class is matched against the first treatment, in history
\* order, whose name or class contains it; drugs_failed counts the required items whose
\* first matching treatment has a failed outcome, or intolerant / contraindicated when
\* the requirement accepts it; a requirement is satisfied iff drugs_failed >=
\* minimum_trials, the overall result iff every requirement is (required false and
\* satisfied true without requirements), and 0 <= drugs_failed <= drugs_tried <= number
\* of required items.
C14_StepTherapy ==
    pc = "done" =>
        LET reqs == policy.step_therapy_requirements
            txs == patient.prior_treatments
            res == step_therapy_result
        IN /\ res.required = (reqs # <<>>)
           /\ reqs = <<>> => res.satisfied /\ res.details = <<>>
           /\ Len(res.details) = Len(reqs)
           /\ res.satisfied = (\A i \in DOMAIN res.details : res.details[i].satisfied)
           /\ \A i \in DOMAIN reqs :
                 /\ res.details[i].drugs_tried = Cardinality(TriedItems(reqs[i], txs))
                 /\ res.details[i].drugs_failed = Cardinality(FailedItems(reqs[i], txs))
                 /\ res.details[i].satisfied
                       = (res.details[i].drugs_failed >= reqs[i].minimum_trials)
                 /\ 0 <= res.details[i].drugs_failed
                 /\ res.details[i].drugs_failed <= res.details[i].drugs_tried
                 /\ res.details[i].drugs_tried <= Len(RequiredItems(reqs[i]))

\* a requirement of one methotrexate trial has been evaluated on a history of two
\* methotrexate treatments, the first without outcome and the second steroid dependent: one drug
\* tried, none failed, not satisfied
C14_Witness ==
    /\ pc = "done"
    /\ Len(policy.step_therapy_requirements) = 1
    /\ policy.step_therapy_requirements[1].required_drugs = <<"methotrexate">>
    /\ policy.step_therapy_requirements[1].required_drug_classes = <<>>
    /\ policy.step_therapy_requirements[1].minimum_trials = 1
    /\ Len(patient.prior_treatments) = 2
    /\ patient.prior_treatments[1].medication_name = "Methotrexate"
    /\ patient.prior_treatments[1].outcome = None
    /\ patient.prior_treatments[2].medication_name = "Methotrexate"
    /\ patient.prior_treatments[2].outcome = <<"steroid_dependent">>
    /\ step_therapy_result.details[1].drugs_tried = 1
    /\ step_therapy_result.details[1].drugs_failed = 0
    /\ ~step_therapy_result.satisfied

----------------------------------------------------------------------------
(* PolicyRepository: keys, rows and the JSON column *)

MaxOps == 3            \* repository calls in one behaviour

\* payer_name.lower().replace(" ", "_")
NormalizeName(name) == MapChars(Lower(name), " ", "_")

\* policy.version or "latest"
VersionVerbatim(version) == version
VersionOrLatest(version) == IF version = "" THEN "latest" ELSE version

\* policy.model_dump(mode="json"): one entry per field of the model
model_dump(p) == [k \in DOMAIN p |-> p[k]]

\* hashlib.sha256(json.dumps(policy_dict, sort_keys=True, default=str)).hexdigest()[:16],
\* taken as free of collisions
ContentHash(policy_dict) == <<"sha256", policy_dict>>

\* json.dumps(policy_dict, default=str)
JsonDumps(policy_dict) == <<"json", policy_dict>>

\* the fields DigitizedPolicy requires
RequiredFields == {"policy_id", "payer_name", "medication_name"}

\* DigitizedPolicy(**parsed_criteria): the typed policy, or a ValidationError
ParsePolicy(d) ==
    IF RequiredFields \subseteq DOMAIN d THEN Just(d) ELSE Raise("ValidationError")

PolicyCacheModel(id, payer_name, medication_name, policy_version, content_hash, policy_text, parsed_criteria, cached_at) ==
    [id |-> id, payer_name |-> payer_name, medication_name |-> medication_name,
     policy_version |-> policy_version, content_hash |-> content_hash,
     policy_text |-> policy_text, parsed_criteria |-> parsed_criteria, cached_at |-> cached_at]

\* select(PolicyCacheModel).where(payer_name == .., medication_name == .., policy_version == ..)
SelectKey(table, payer, medication, version) ==
    {r \in table : r.payer_name = payer /\ r.medication_name = medication
                   /\ r.policy_version = version}

\* select / delete .where(payer_name == .., medication_name == ..)
SelectLatest(table, payer, medication) ==
    {r \in table : r.payer_name = payer /\ r.medication_name = medication
                   /\ r.policy_version = "latest"}
SelectPair(table, payer, medication) ==
    {r \in table : r.payer_name = payer /\ r.medication_name = medication}

\* result.scalar_one_or_none()
NeverFound(found) == Nothing
scalar_one_or_none(found) ==
    IF found = {} THEN Nothing
    ELSE IF Cardinality(found) = 1 THEN Just(CHOOSE r \in found : TRUE)
    ELSE Raise("MultipleResultsFound")

\* the branch of store that finds the row: parsed_criteria, content_hash and cached_at are set
UpdatedRow(existing, policy_dict, now) ==
    [existing EXCEPT !.parsed_criteria = policy_dict,
                     !.content_hash = ContentHash(policy_dict),
                     !.cached_at = now]

\* the branch of store that finds no row: a new PolicyCacheModel under a fresh uuid4
InsertedRow(id, payer, medication, version, policy_dict, now) ==
    PolicyCacheModel(id, payer, medication, version, ContentHash(policy_dict),
                     JsonDumps(policy_dict), policy_dict, now)

\* store(policy) run alone in its session: the table it commits and what it returns
store(table, p, now) ==
    LET Decide(existing, payer, medication, version, policy_dict) ==
            IF IsRaise(existing) THEN [rows |-> table, value |-> existing]
            ELSE IF existing # Nothing
            THEN [rows |-> (table \ {existing.value})
                              \cup {UpdatedRow(existing.value, policy_dict, now)},
                  value |-> Just(existing.value.id)]
            ELSE [rows |-> table \cup {InsertedRow(now, payer, medication, version,
                                                   policy_dict, now)},
                  value |-> Just(now)]
        Keyed(payer, medication, version) ==
            Decide(scalar_one_or_none(SelectKey(table, payer, medication, version)),
                   payer, medication, version, model_dump(p))
    IN Keyed(NormalizeName(p.payer_name), NormalizeName(p.medication_name),
             VersionOrLatest(p.version))

\* the try/except around DigitizedPolicy(**entry.parsed_criteria): a warning, then None
Propagated(parsed) == parsed
Swallowed(parsed) == IF IsRaise(parsed) THEN Nothing ELSE parsed

\* load, from the select on: the row of the key, if any, as a typed policy
LoadKey(table, payer, medication, version) ==
    LET Decide(entry) ==
            IF IsRaise(entry) THEN entry
            ELSE IF entry = Nothing \/ entry.value.parsed_criteria = None THEN Nothing
            ELSE Swallowed(ParsePolicy(entry.value.parsed_criteria))
    IN Decide(scalar_one_or_none(SelectKey(table, payer, medication, version)))

\* load(payer_name, medication_name, version)
load(table, payer_name, medication_name, version) ==
    LoadKey(table, NormalizeName(payer_name), NormalizeName(medication_name), version)

\* invalidate(payer_name, medication_name): the table left and result.rowcount > 0
invalidate(table, payer_name, medication_name) ==
    LET Decide(found) == [rows |-> table \ found, value |-> found # {}]
    IN Decide(SelectPair(table, NormalizeName(payer_name), NormalizeName(medication_name)))

RECURSIVE OrderByCachedAtDesc(_)
\* .order_by(PolicyCacheModel.cached_at.desc())
OrderByCachedAtDesc(found) ==
    IF found = {} THEN <<>>
    ELSE LET newest == CHOOSE r \in found : \A q \in found : q.cached_at <= r.cached_at
         IN <<newest>> \o OrderByCachedAtDesc(found \ {newest})

PolicyVersionInfo(e) ==
    [version |-> VersionOrLatest(e.policy_version), cached_at |-> e.cached_at,
     content_hash |-> e.content_hash]

\* list_versions(payer_name, medication_name)
list_versions(table, payer_name, medication_name) ==
    LET entries == OrderByCachedAtDesc(SelectPair(table, NormalizeName(payer_name),
                                                  NormalizeName(medication_name)))
    IN [i \in DOMAIN entries |-> PolicyVersionInfo(entries[i])]

----------------------------------------------------------------------------
(* Inputs of the repository *)

RepoPayers == {"Blue Cross", "blue_cross", "Cigna"}
RepoMedication == "Infliximab"
RepoLabels == {"v2", "v3"}

\* a DigitizedPolicy with its payer, medication and version label
RepoPolicy(payer_name, version, reqs) ==
    [policy_id |-> "POL", payer_name |-> payer_name, medication_name |-> RepoMedication,
     version |-> version, atomic_criteria |-> <<>>, criterion_groups |-> <<>>,
     indications |-> <<>>, exclusions |-> <<>>, step_therapy_requirements |-> reqs]

RepoPolicies ==
    {RepoPolicy(payer, version, reqs) :
        payer \in RepoPayers, version \in {"", "v2"}, reqs \in {<<>>, <<SecondRequirement>>}}
    \cup {RepoPolicy("Cigna", "latest", <<>>)}

\* a row whose JSON column fails the schema, and a row whose JSON column is null
CorruptRow ==
    LET Seeded(d) == PolicyCacheModel(-1, "blue_cross", "infliximab", "latest",
                                      ContentHash(d), JsonDumps(d), d, 0)
    IN Seeded([policy_id |-> "POL"])
UnparsedRow ==
    PolicyCacheModel(-2, "cigna", "infliximab", "v3", ContentHash(None), JsonDumps(None),
                     None, 0)

InitialTables == {{}, {CorruptRow, UnparsedRow}}

----------------------------------------------------------------------------
(* PolicyDigitalizationPipeline.digitalize_policy: one step per awaited collaborator *)

\* d.get(key)
Get(d, key) == IF key \in DOMAIN d THEN d[key] ELSE None

\* not value, for a list, a dict or None
NotAny(value) == DOMAIN value = {}

\* the guard against an empty extraction
EitherMissing(d) == NotAny(Get(d, "atomic_criteria")) \/ NotAny(Get(d, "indications"))
EmptyExtraction(d) == NotAny(Get(d, "atomic_criteria")) /\ NotAny(Get(d, "indications"))

\* what the extraction model can give for a collection: no key, an empty one, one entry
ExtractedCriteria ==
    {None, [atomic_criteria |-> <<>>],
     [atomic_criteria |-> [c \in {"AGE_GE_18"} |-> PolicyCriteria[c]]]}
ExtractedIndications ==
    {None, [indications |-> <<>>],
     [indications |-> <<[indication_id |-> "IND_1", initial_approval_criteria |-> 1]>>]}

ExtractedData ==
    {[payer_name |-> payer, medication_name |-> RepoMedication] @@ criteria @@ indications :
        payer \in {"Blue Cross", "Cigna"}, criteria \in ExtractedCriteria,
        indications \in ExtractedIndications}

RawExtractionResult(extracted_data) ==
    [extracted_data |-> extracted_data, source_hash |-> "hash", source_type |-> "text",
     extraction_model |-> "gemini"]

\* quality scores, in tenths
SkippedScore == 7
ValidatorScores == {3, 6, 9}

ValidatedExtractionResult(extracted_data, validation_status, quality_score) ==
    [extracted_data |-> extracted_data, validation_status |-> validation_status,
     quality_score |-> quality_score]

\* the grade the reference validator gives a quality score
ExtractionQuality(score) ==
    IF score >= 8 THEN "good" ELSE IF score >= 5 THEN "needs_review" ELSE "poor"

\* reference_validator.validate_codes(validated), with the metadata of the raw extraction
validate_codes(v, r) ==
    LET Build(d) ==
            [policy_id |-> "POL", payer_name |-> d.payer_name,
             medication_name |-> d.medication_name, version |-> "latest",
             atomic_criteria |-> Get(d, "atomic_criteria"), criterion_groups |-> <<>>,
             indications |-> Get(d, "indications"), exclusions |-> <<>>,
             step_therapy_requirements |-> <<>>,
             extraction_quality |-> ExtractionQuality(v.quality_score),
             extraction_model |-> r.extraction_model, source_document_hash |-> r.source_hash]
    IN Build(v.extracted_data)

\* passes_completed is assigned 3 after Pass 3, whether or not Pass 2 ran
DigitalizationResult(p, v, cache_id) ==
    [policy |-> model_dump(p), source_type |-> "text", passes_completed |-> 3,
     extraction_quality |-> p.extraction_quality, validation_status |-> v.validation_status,
     quality_score |-> v.quality_score, criteria_count |-> Cardinality(DOMAIN p.atomic_criteria),
     indications_count |-> Cardinality(DOMAIN p.indications), stored |-> TRUE,
     cache_id |-> cache_id]

\* Pass 1 and the guard; with skip_validation the placeholder of Pass 2 is built at once
Extract ==
    /\ pc = "pass1"
    /\ invoked' = Append(invoked, "extractor")
    /\ \/ /\ reply' = Raise("ExtractionError")
          /\ pc' = "done"
          /\ UNCHANGED <<raw, validated>>
       \/ \E d \in ExtractedData :
            /\ raw' = RawExtractionResult(d)
            /\ IF EmptyExtraction(d)
               THEN /\ reply' = Raise("ExtractionError")
                    /\ pc' = "done"
                    /\ UNCHANGED validated
               ELSE /\ reply' = reply
                    /\ IF skip_validation
                       THEN /\ validated' = ValidatedExtractionResult(d, "skipped", SkippedScore)
                            /\ pc' = "pass3"
                       ELSE /\ pc' = "pass2"
                            /\ UNCHANGED validated
    /\ UNCHANGED <<combineVars, criterionVars, patient, policy, steps, groupVars, policyVars,
                   stepVars, frontVars, rows, clock, stored, skip_validation, sessVars>>

\* Pass 2: validator.validate_extraction(raw, policy_text)
Validate ==
    /\ pc = "pass2"
    /\ invoked' = Append(invoked, "validator")
    /\ \/ /\ reply' = Raise("ValidationError")
          /\ pc' = "done"
          /\ UNCHANGED validated
       \/ /\ \E status \in {"valid", "corrected"}, score \in ValidatorScores :
                validated' = ValidatedExtractionResult(raw.extracted_data, status, score)
          /\ pc' = "pass3"
          /\ reply' = reply
    /\ UNCHANGED <<combineVars, criterionVars, patient, policy, steps, groupVars, policyVars,
                   stepVars, frontVars, rows, clock, stored, raw, skip_validation, sessVars>>

\* Pass 3: reference_validator.validate_codes(validated), then the extraction metadata
ValidateCodes ==
    /\ pc = "pass3"
    /\ invoked' = Append(invoked, "reference_validator")
    /\ \/ /\ reply' = Raise("ValidationError")
          /\ pc' = "done"
          /\ UNCHANGED policy
       \/ /\ policy' = validate_codes(validated, raw)
          /\ pc' = "store"
          /\ reply' = reply
    /\ UNCHANGED <<combineVars, criterionVars, patient, steps, groupVars, policyVars,
                   stepVars, frontVars, rows, clock, stored, raw, validated, skip_validation,
                   sessVars>>

\* repository.store(policy) and the returned DigitalizationResult
StorePolicy ==
    /\ pc = "store"
    /\ invoked' = Append(invoked, "repository.store")
    /\ LET Commit(res) ==
              /\ rows' = res.rows
              /\ reply' = IF IsRaise(res.value) THEN res.value
                          ELSE DigitalizationResult(policy, validated, res.value.value)
       IN Commit(store(rows, policy, clock + 1))
    /\ clock' = clock + 1
    /\ pc' = "done"
    /\ UNCHANGED <<combineVars, criterionVars, patient, policy, steps, groupVars, policyVars,
                   stepVars, frontVars, stored, raw, validated, skip_validation, sessVars>>

InitPipeline ==
    /\ pc = "pass1"
    /\ rows \in InitialTables /\ clock = 0 /\ reply = None /\ stored = {}
    /\ raw = None /\ validated = None /\ invoked = <<>>
    /\ skip_validation \in BOOLEAN
    /\ patient = EmptyPatient /\ policy = None
    /\ IdleCombine /\ IdleCriterion /\ IdleGroup /\ IdlePolicy /\ IdleStep /\ IdleSessions /\ IdleFront

NextPipeline == Extract \/ Validate \/ ValidateCodes \/ StorePolicy

SpecPipeline == InitPipeline /\ [][NextPipeline]_vars

----------------------------------------------------------------------------
(* Properties of digitalize_policy *)

\* the number of entries Pass 1 gave under a key, 0 when the key is absent
Extracted(key) ==
    IF key \in DOMAIN raw.extracted_data
    THEN Cardinality(DOMAIN raw.extracted_data[key]) ELSE 0

ExtractionErrorRaised == pc = "done" /\ IsRaise(reply) /\ reply.exception = "ExtractionError"

\* C15: once Pass 1 has returned its data, digitalize_policy raises an extraction error
\* exactly when the data has no atomic criteria and no indications; in that case the
\* extractor is the only collaborator awaited (no Pass 2, no Pass 3, no repository.store)
\* and the rows are those of before the call; otherwise the guard does not fire and the
\* next pass is awaited: Pass 2, or Pass 3 when skip_validation is set.
C15_EmptyExtractionGuard ==
    raw # None =>
        IF Extracted("atomic_criteria") = 0 /\ Extracted("indications") = 0
        THEN /\ ExtractionErrorRaised
             /\ invoked = <<"extractor">>
             /\ rows \in InitialTables /\ clock = 0
        ELSE /\ ~ExtractionErrorRaised
             /\ pc \in {"pass2", "pass3", "store", "done"}
             /\ pc = "pass2" => ~skip_validation /\ invoked = <<"extractor">>
             /\ Len(invoked) >= 2 =>
                   invoked[2] = (IF skip_validation THEN "reference_validator" ELSE "validator")
             /\ pc = "done" /\ ~IsRaise(reply) =>
                   invoked[Len(invoked)] = "repository.store" /\ reply.stored

\* the guard has fired on data that carries both keys, empty, with a seeded table
C15_Witness ==
    /\ ExtractionErrorRaised /\ raw # None
    /\ DOMAIN raw.extracted_data = {"payer_name", "medication_name", "atomic_criteria",
                                    "indications"}
    /\ rows # {}

----------------------------------------------------------------------------
(* PolicyRepository: calls made one after another, each in its own session *)

\* the key a policy is stored under
KeyOf(p) ==
    <<NormalizeName(p.payer_name), NormalizeName(p.medication_name),
      IF p.version = "" THEN "latest" ELSE p.version>>

\* history: store(p) has returned, later stores and invalidates of the key forgotten
Remember(history, p) ==
    LET Keep(key) == {e \in history : e.key # key} \cup {[key |-> key, policy |-> p]}
    IN Keep(KeyOf(p))

\* history: invalidate(payer_name, medication_name) has returned
Forget(history, payer_name, medication_name) ==
    LET Keep(payer, medication) ==
            {e \in history : ~(e.key[1] = payer /\ e.key[2] = medication)}
    IN Keep(NormalizeName(payer_name), NormalizeName(medication_name))

\* the call's session commits the table and the call returns
Committed(op, args, res) ==
    /\ rows' = res.rows
    /\ reply' = [op |-> op, args |-> args, value |-> res.value]
    /\ clock' = clock + 1

Store ==
    /\ pc = "repository" /\ clock < MaxOps
    /\ \E p \in RepoPolicies :
          /\ Committed("store", <<p>>, store(rows, p, clock + 1))
          /\ stored' = Remember(stored, p)
    /\ UNCHANGED <<combineVars, criterionVars, machineVars, stepVars, frontVars, pipeVars, sessVars>>

\* store_version(policy, version_label): the caller's policy gets the label, then store
StoreVersion ==
    /\ pc = "repository" /\ clock < MaxOps
    /\ \E p \in {q \in RepoPolicies : q.version = ""}, version_label \in RepoLabels :
          LET Labelled(q) ==
                 /\ Committed("store_version", <<q>>, store(rows, q, clock + 1))
                 /\ stored' = Remember(stored, q)
          IN Labelled([p EXCEPT !.version = version_label])
    /\ UNCHANGED <<combineVars, criterionVars, machineVars, stepVars, frontVars, pipeVars, sessVars>>

Load ==
    /\ pc = "repository" /\ clock < MaxOps
    /\ \E payer_name \in RepoPayers, version \in {"latest"} \cup RepoLabels :
          Committed("load", <<payer_name, RepoMedication, version>>,
                    [rows |-> rows, value |-> load(rows, payer_name, RepoMedication, version)])
    /\ UNCHANGED <<combineVars, criterionVars, machineVars, stepVars, frontVars, stored, pipeVars,
                   sessVars>>

Invalidate ==
    /\ pc = "repository" /\ clock < MaxOps
    /\ \E payer_name \in RepoPayers :
          /\ Committed("invalidate", <<payer_name, RepoMedication>>,
                       invalidate(rows, payer_name, RepoMedication))
          /\ stored' = Forget(stored, payer_name, RepoMedication)
    /\ UNCHANGED <<combineVars, criterionVars, machineVars, stepVars, frontVars, pipeVars, sessVars>>

ListVersions ==
    /\ pc = "repository" /\ clock < MaxOps
    /\ \E payer_name \in RepoPayers :
          Committed("list_versions", <<payer_name, RepoMedication>>,
                    [rows |-> rows, value |-> list_versions(rows, payer_name, RepoMedication)])
    /\ UNCHANGED <<combineVars, criterionVars, machineVars, stepVars, frontVars, stored, pipeVars,
                   sessVars>>

InitRepository ==
    /\ pc = "repository"
    /\ rows \in InitialTables /\ clock = 0 /\ reply = None /\ stored = {}
    /\ patient = EmptyPatient /\ policy = None
    /\ IdleCombine /\ IdleCriterion /\ IdleGroup /\ IdlePolicy /\ IdleStep /\ IdlePipeline
    /\ IdleSessions /\ IdleFront

NextRepository == Store \/ StoreVersion \/ Load \/ Invalidate \/ ListVersions

SpecRepository == InitRepository /\ [][NextRepository]_vars

----------------------------------------------------------------------------
(* Properties of the repository *)

LoadReturned == reply # None /\ reply.op = "load"

\* the normalized key a load call asks for
AskedKey == <<NormalizeName(reply.args[1]), NormalizeName(reply.args[2]), reply.args[3]>>

OneRowPerKey ==
    \A r, q \in rows :
        (r.payer_name = q.payer_name /\ r.medication_name = q.medication_name
         /\ r.policy_version = q.policy_version) => r = q

AllLabels == {"latest"} \cup RepoLabels

\* a step in which store(p) or store_version(p, label) returns: the rows before and after
StoreReturns(p) ==
    LET Decide(payer, medication, label, before, after, policy_dict) ==
            IF before # {}
            THEN /\ Cardinality(rows') = Cardinality(rows)
                 /\ rows' \ after = rows \ before
                 /\ \E r \in before, q \in after :
                       /\ after = {q} /\ q.id = r.id
                       /\ q.parsed_criteria = policy_dict
                       /\ q.content_hash = ContentHash(policy_dict)
            ELSE /\ Cardinality(rows') = Cardinality(rows) + 1
                 /\ rows \subseteq rows'
                 /\ LoadKey(rows', payer, medication, label) = Just(p)
                 /\ \A version \in AllLabels \ {label} :
                       LoadKey(rows', payer, medication, version)
                         = LoadKey(rows, payer, medication, version)
        Keyed(key) ==
            Decide(key[1], key[2], key[3], SelectKey(rows, key[1], key[2], key[3]),
                   SelectKey(rows', key[1], key[2], key[3]), model_dump(p))
    IN Keyed(KeyOf(p))

\* C17: whatever store, store_version and invalidate calls have run one after another,
\* the table holds at most one row per normalized (payer, medication, version) key; a
\* store on a key that has a row keeps the row's id and the number of rows and replaces
\* the row's policy and content hash; a store on a key without a row adds one row and
\* leaves every other row, so that the other versions load as before and the new one
\* loads as the stored policy.
C17_OneRowPerKey ==
    /\ []OneRowPerKey
    /\ [][reply'.op \in {"store", "store_version"} => StoreReturns(reply'.args[1])]_vars

\* the seeded row of (blue_cross, infliximab, latest) was replaced in place, and a second
\* version of the pair stands beside it; both load
C17_Witness ==
    /\ \E r \in rows : r.id = -1 /\ r.parsed_criteria # CorruptRow.parsed_criteria
    /\ load(rows, "blue_cross", RepoMedication, "latest") # Nothing
    /\ load(rows, "blue_cross", RepoMedication, "v2") # Nothing
    /\ Cardinality(rows) = 3

\* a step in which load(payer_name, medication_name, version) returns
LoadReturns(payer, medication, version) ==
    LET Decide(found) ==
            /\ rows' = rows
            /\ ~IsRaise(reply'.value)
            /\ (\/ found = {}
                \/ \E r \in found : \/ DOMAIN r.parsed_criteria = {}
                                    \/ IsRaise(ParsePolicy(r.parsed_criteria)))
                  => reply'.value = Nothing
    IN Decide({r \in rows : r.payer_name = payer /\ r.medication_name = medication
                            /\ r.policy_version = version})

\* C19: load returns None, and does not raise, when the key has no row, when the row's
\* stored policy is empty and when the stored policy fails the schema; no load changes
\* a row.
C19_LoadMiss ==
    [][reply'.op = "load" =>
          LoadReturns(NormalizeName(reply'.args[1]), NormalizeName(reply'.args[2]),
                      reply'.args[3])]_vars

\* load has returned None for the key whose row fails the schema
C19_Witness ==
    /\ LoadReturned /\ reply.args = <<"Blue Cross", RepoMedication, "latest">>
    /\ CorruptRow \in rows
    /\ reply.value = Nothing

\* a step in which invalidate(payer_name, medication_name) returns
InvalidateReturns(payer_name, medication_name) ==
    LET Decide(payer, medication) ==
            /\ \A version \in AllLabels :
                  load(rows', payer_name, medication_name, version) = Nothing
            /\ \A r \in rows' : ~(r.payer_name = payer /\ r.medication_name = medication)
            /\ list_versions(rows', payer_name, medication_name) = <<>>
            /\ {r \in rows' : r.payer_name # payer \/ r.medication_name # medication}
                 = {r \in rows : r.payer_name # payer \/ r.medication_name # medication}
            /\ reply'.value = (rows' # rows)
            /\ (reply # None /\ reply.op = "invalidate"
                /\ NormalizeName(reply.args[1]) = payer
                /\ NormalizeName(reply.args[2]) = medication)
                  => (reply'.value = FALSE /\ rows' = rows)
    IN Decide(NormalizeName(payer_name), NormalizeName(medication_name))

\* C20: once invalidate(payer, medication) has returned, load gives None for every version
\* label of the normalized pair, list_versions gives the empty list, and the rows of the
\* other pairs are the ones of before; the call returns true exactly when it deleted a
\* row, so an invalidate that follows an invalidate of the pair returns false and changes
\* nothing.
C20_Invalidate ==
    [][reply'.op = "invalidate" => InvalidateReturns(reply'.args[1], reply'.args[2])]_vars

\* an invalidate of the pair whose seeded row an earlier invalidate deleted returns
\* false; the row of the other pair is still there
C20_Witness ==
    /\ reply # None /\ reply.op = "invalidate" /\ reply.value = FALSE
    /\ reply.args[1] = "Blue Cross"
    /\ rows = {UnparsedRow} /\ clock = 3

----------------------------------------------------------------------------
(* PolicyRepository: store and load calls that overlap, each in its own get_db() session *)

MaxSessions == 3       \* calls running at the same time

OldPolicy == RepoPolicy("blue_cross", "latest", <<>>)
FirstPolicy == RepoPolicy("Blue Cross", "", <<SecondRequirement>>)
SecondPolicy == RepoPolicy("blue_cross", "latest", <<SecondRequirement, SecondRequirement>>)
OtherPolicy == RepoPolicy("Cigna", "", <<>>)

\* the table before the calls: empty, or holding the row of an earlier store(OldPolicy)
ConcurrentTables == {{}, store({}, OldPolicy, 0).rows}

Call(op, p, args) == [op |-> op, policy |-> p, args |-> args]

ConcurrentCalls ==
    {Call("store", p, <<>>) : p \in {FirstPolicy, SecondPolicy, OtherPolicy}}
    \cup {Call("load", None, <<"Blue Cross", RepoMedication, "latest">>)}

\* a call that has entered `async with get_db() as session` and awaits its select
Session(call) == [call |-> call, at |-> "select", existing |-> Nothing, value |-> None]

\* the rows of the key the select of the session's call names
Selected(table, call) ==
    IF call.op = "store"
    THEN SelectKey(table, KeyOf(call.policy)[1], KeyOf(call.policy)[2],
                   VersionOrLatest(call.policy.version))
    ELSE SelectKey(table, NormalizeName(call.args[1]), NormalizeName(call.args[2]),
                   call.args[3])

\* the unique (payer_name, medication_name, policy_version) key of the table
ViolatesUniqueKey(table, row) == SelectKey(table, row.payer_name, row.medication_name,
                                           row.policy_version) # {}

\* session.commit() of a store: the UPDATE of the row the select found, or the INSERT of
\* the new row; get_db rolls back and re-raises what the commit raises
commit(table, session, id, now) ==
    LET Update(existing, policy_dict) ==
            IF \E r \in table : r.id = existing.id
            THEN [rows |-> {IF r.id = existing.id
                            THEN UpdatedRow(r, policy_dict, now) ELSE r : r \in table},
                  value |-> Just(existing.id)]
            ELSE [rows |-> table, value |-> Raise("StaleDataError")]
        Insert(row) ==
            IF ViolatesUniqueKey(table, row)
            THEN [rows |-> table, value |-> Raise("IntegrityError")]
            ELSE [rows |-> table \cup {row}, value |-> Just(id)]
        Keyed(key, policy_dict) ==
            IF session.existing # Nothing
            THEN Update(session.existing.value, policy_dict)
            ELSE Insert(InsertedRow(id, key[1], key[2], key[3], policy_dict, now))
    IN Keyed(<<NormalizeName(session.call.policy.payer_name),
               NormalizeName(session.call.policy.medication_name),
               VersionOrLatest(session.call.policy.version)>>,
             model_dump(session.call.policy))

\* await session.execute(stmt) of a store, and result.scalar_one_or_none()
SessionSelect(i) ==
    /\ sessions[i].call.op = "store" /\ sessions[i].at = "select"
    /\ LET Found(existing) ==
              sessions' = [sessions EXCEPT ![i] =
                              IF IsRaise(existing)
                              THEN [@ EXCEPT !.at = "done", !.value = existing]
                              ELSE [@ EXCEPT !.at = "commit", !.existing = existing]]
       IN Found(scalar_one_or_none(Selected(rows, sessions[i].call)))
    /\ clock' = clock + 1
    /\ UNCHANGED <<combineVars, criterionVars, machineVars, stepVars, frontVars, rows, reply, stored,
                   pipeVars>>

\* leaving the `async with` of a store: commit, then return cache_id
SessionCommit(i) ==
    /\ sessions[i].call.op = "store" /\ sessions[i].at = "commit"
    /\ LET Done(res) ==
              /\ rows' = res.rows
              /\ sessions' = [sessions EXCEPT ![i] = [@ EXCEPT !.at = "done",
                                                               !.value = res.value]]
       IN Done(commit(rows, sessions[i], i, clock + 1))
    /\ clock' = clock + 1
    /\ UNCHANGED <<combineVars, criterionVars, machineVars, stepVars, frontVars, reply, stored, pipeVars>>

\* a load: its select reads the committed rows, the call returns the typed policy
SessionLoad(i) ==
    /\ sessions[i].call.op = "load" /\ sessions[i].at = "select"
    /\ LET Returned(args) ==
              sessions' = [sessions EXCEPT ![i] =
                              [@ EXCEPT !.at = "done",
                                        !.value = load(rows, args[1], args[2], args[3])]]
       IN Returned(sessions[i].call.args)
    /\ clock' = clock + 1
    /\ UNCHANGED <<combineVars, criterionVars, machineVars, stepVars, frontVars, rows, reply, stored,
                   pipeVars>>

InitConcurrent ==
    /\ pc = "sessions"
    /\ rows \in ConcurrentTables /\ clock = 0 /\ reply = None /\ stored = {}
    /\ sessions \in [1..MaxSessions -> {Session(call) : call \in ConcurrentCalls}]
    /\ patient = EmptyPatient /\ policy = None
    /\ IdleCombine /\ IdleCriterion /\ IdleGroup /\ IdlePolicy /\ IdleStep /\ IdlePipeline
    /\ IdleFront

NextConcurrent ==
    \E i \in 1..MaxSessions : SessionSelect(i) \/ SessionCommit(i) \/ SessionLoad(i)

SpecConcurrent == InitConcurrent /\ [][NextConcurrent]_vars

----------------------------------------------------------------------------
(* Properties of overlapping repository calls *)

AllDone == \A i \in 1..MaxSessions : sessions[i].at = "done"

StoreSessions == {i \in 1..MaxSessions : sessions[i].call.op = "store"}
LoadSessions == {i \in 1..MaxSessions : sessions[i].call.op = "load"}

\* the policies the store calls on the key of the load calls carry
StoredOnAskedKey ==
    {sessions[i].call.policy : i \in {j \in StoreSessions :
                                         KeyOf(sessions[j].call.policy) = KeyOf(OldPolicy)}}

\* the row holds the policy in full, with the policy's content hash
HoldsInFull(r, p) ==
    r.parsed_criteria = model_dump(p) /\ r.content_hash = ContentHash(model_dump(p))

\* C18: store calls on one key that overlap, each with its own session, end as some
\* serial order of them ends: every call returns its cache id, the key has exactly one
\* row, and the row holds the policy of one of the calls in full with that policy's
\* content hash; a load that overlaps them returns the complete old policy (None when the
\* key had no row) or the complete policy of one of the calls; no load afterwards fails
\* on two rows of one key.
C18_AsStated ==
    /\ \A i \in LoadSessions :
          sessions[i].at = "done" =>
             \/ sessions[i].value = (IF \E r \in rows : r.id = 0
                                     THEN Just(OldPolicy) ELSE Nothing)
             \/ \E p \in StoredOnAskedKey : sessions[i].value = Just(p)
    /\ AllDone =>
          /\ \A i \in StoreSessions : ~IsRaise(sessions[i].value)
          /\ \A i \in StoreSessions :
                LET Keyed(key) ==
                       /\ \E r \in rows :
                             /\ SelectKey(rows, key[1], key[2], key[3]) = {r}
                             /\ \E j \in StoreSessions : HoldsInFull(r, sessions[j].call.policy)
                       /\ ~IsRaise(LoadKey(rows, key[1], key[2], key[3]))
                IN Keyed(KeyOf(sessions[i].call.policy))

\* two store calls on one key both selected before either committed and found no row;
\* the first commit inserted its row, the second raised on the unique key
C18_FailingInput ==
    /\ AllDone
    /\ \E i, j \in StoreSessions :
          /\ i # j
          /\ KeyOf(sessions[i].call.policy) = KeyOf(sessions[j].call.policy)
          /\ sessions[i].call.policy # sessions[j].call.policy
          /\ sessions[i].existing = Nothing /\ sessions[j].existing = Nothing
          /\ sessions[i].value = Just(i)
          /\ sessions[j].value = Raise("IntegrityError")
          /\ \E r \in rows : r.id = i /\ HoldsInFull(r, sessions[i].call.policy)

----------------------------------------------------------------------------
(* PolicyDigitalizationPipeline.get_or_digitalize: one step per awaited collaborator *)

MaxGets == 2           \* get_or_digitalize calls in one behaviour, with the same arguments

SafeChars == LowerChars \o DigitChars \o "_-"

\* re.match(r'^[a-z0-9_-]+$', key); `$` also matches before a newline that ends the key
AnyKey(key) == TRUE
MatchesSafeKey(key) ==
    LET Body(b) == b # "" /\ \A i \in 1..Len(b) : IndexIn(Char(b, i), SafeChars) # 0
    IN IF key # "" /\ Char(key, Len(key)) = "\n"
       THEN Body(SubSeq(key, 1, Len(key) - 1)) ELSE Body(key)

\* (policies_root / name).resolve(): whether the path stays under the policies root.
\* A `..` component leaves the root; an existing file resolves to where its link points.
ResolvesInside(name, file) ==
    /\ ~StartsWith(name, "../") /\ ~IsSubstr("/../", name)
    /\ file = None \/ file.inside

DigitizedName(payer_key, med_key) == payer_key \o "_" \o med_key \o "_digitized.json"
TextName(payer_key, med_key) == payer_key \o "_" \o med_key \o ".txt"

\* a file of data/policies: where its path resolves, and what json.load gives (None: text)
File(inside, data) == [inside |-> inside, data |-> data]

DigitizedFiles ==
    {None, File(FALSE, model_dump(RepoPolicy("Blue Cross", "", <<>>))),
     File(TRUE, [policy_id |-> "POL"])}
    \cup {File(TRUE, model_dump(p)) :
             p \in {RepoPolicy("Blue Cross", "", <<>>), RepoPolicy("Blue Cross", "v2", <<>>),
                    RepoPolicy("Cigna", "", <<>>)}}
TextFiles == {None, File(TRUE, None), File(FALSE, None)}

GetPayers == {"Blue Cross", "../secret", "a/b"}

\* the table before the call: empty, a row that fails the schema at the key of
\* "Blue Cross", a policy at that key, a policy at the key of "a/b"
GetTables ==
    {{}, {CorruptRow}, store({}, OldPolicy, 0).rows,
     store({}, RepoPolicy("a/b", "", <<>>), 0).rows}

\* if cached:
NeverHit(cached) == FALSE
CacheHit(cached) == cached # Nothing

\* the call returns or raises
GetReturns(value) == reply' = value /\ phase' = "returned"

\* repository.load(payer_name, medication_name), and on a miss everything up to the next
\* await: the key check, the path checks and the reads of the files
GetLookup ==
    /\ phase = "lookup"
    /\ LET Raw(text_name) ==
              IF ~ResolvesInside(text_name, files.text)
              THEN GetReturns(Raise("PolicyNotFoundError"))
                   /\ UNCHANGED <<opened, pc, policy>>
              ELSE IF files.text # None
              THEN /\ opened' = Append(opened, [name |-> text_name, file |-> files.text])
                   /\ phase' = "digitalizing" /\ pc' = "pass1"
                   /\ UNCHANGED <<reply, policy>>
              ELSE GetReturns(Raise("PolicyNotFoundError"))
                   /\ UNCHANGED <<opened, pc, policy>>
           Typed(parsed) ==
              IF IsRaise(parsed)
              THEN GetReturns(parsed) /\ UNCHANGED policy
              ELSE policy' = parsed.value /\ phase' = "store_file" /\ UNCHANGED reply
           Miss(payer_key, med_key) ==
              IF ~MatchesSafeKey(payer_key) \/ ~MatchesSafeKey(med_key)
              THEN GetReturns(Raise("PolicyNotFoundError"))
                   /\ UNCHANGED <<opened, pc, policy>>
              ELSE IF ~ResolvesInside(DigitizedName(payer_key, med_key), files.json)
              THEN GetReturns(Raise("PolicyNotFoundError"))
                   /\ UNCHANGED <<opened, pc, policy>>
              ELSE IF files.json # None
              THEN /\ opened' = Append(opened, [name |-> DigitizedName(payer_key, med_key),
                                                file |-> files.json])
                   /\ Typed(ParsePolicy(files.json.data))
                   /\ UNCHANGED pc
              ELSE Raw(TextName(payer_key, med_key))
           Looked(cached) ==
              IF CacheHit(cached)
              THEN GetReturns(cached) /\ UNCHANGED <<opened, pc, policy>>
              ELSE Miss(NormalizeName(request.payer_name),
                        NormalizeName(request.medication_name))
       IN Looked(load(rows, request.payer_name, request.medication_name, "latest"))
    /\ invoked' = Append(invoked, "repository.load")
    /\ UNCHANGED <<combineVars, criterionVars, patient, steps, groupVars, policyVars, stepVars,
                   rows, clock, stored, raw, validated, skip_validation, sessVars, backVars, request,
                   files>>

\* the pre-digitized policy: repository.store(policy), return policy
GetStoreFile ==
    /\ phase = "store_file"
    /\ invoked' = Append(invoked, "repository.store")
    /\ LET Commit(res) ==
              /\ rows' = res.rows
              /\ GetReturns(IF IsRaise(res.value) THEN res.value ELSE Just(policy))
       IN Commit(store(rows, policy, clock + 1))
    /\ clock' = clock + 1
    /\ UNCHANGED <<combineVars, criterionVars, machineVars, stepVars, stored, raw, validated,
                   skip_validation, sessVars, backVars, request, files, opened>>

\* digitalize_policy has returned or raised: DigitizedPolicy(**result.policy)
GetDigitalized ==
    /\ phase = "digitalizing" /\ pc = "done"
    /\ GetReturns(IF IsRaise(reply) THEN reply
                  ELSE IF DOMAIN reply.policy # {} THEN ParsePolicy(reply.policy)
                  ELSE Raise("PolicyNotFoundError"))
    /\ UNCHANGED <<combineVars, criterionVars, machineVars, stepVars, rows, clock, stored,
                   pipeVars, sessVars, backVars, request, files, opened>>

\* the caller makes the call again, with the same arguments
GetAgain ==
    /\ phase = "returned" /\ request.call < MaxGets
    /\ request' = [request EXCEPT !.call = @ + 1, !.first = reply]
    /\ phase' = "lookup" /\ pc' = "get"
    /\ reply' = None /\ raw' = None /\ validated' = None /\ invoked' = <<>> /\ opened' = <<>>
    /\ UNCHANGED <<combineVars, criterionVars, patient, policy, steps, groupVars, policyVars,
                   stepVars, rows, clock, stored, skip_validation, sessVars, backVars, files>>

InitGet ==
    /\ pc = "get" /\ phase = "lookup"
    /\ \E payer_name \in GetPayers :
          request = [payer_name |-> payer_name, medication_name |-> RepoMedication,
                     call |-> 1, first |-> None]
    /\ \E json \in DigitizedFiles, text \in TextFiles : files = [json |-> json, text |-> text]
    /\ rows \in GetTables /\ clock = 0 /\ reply = None /\ stored = {}
    /\ opened = <<>>
    /\ patient = EmptyPatient /\ policy = None
    /\ IdleCombine /\ IdleCriterion /\ IdleGroup /\ IdlePolicy /\ IdleStep /\ IdlePipeline
    /\ IdleSessions /\ IdleBack

NextGet ==
    \/ GetLookup \/ GetStoreFile \/ GetDigitalized \/ GetAgain
    \/ Extract \/ Validate \/ ValidateCodes \/ StorePolicy

SpecGet == InitGet /\ [][NextGet]_vars

----------------------------------------------------------------------------
(* Properties of get_or_digitalize *)

ModelCalls == {"extractor", "validator", "reference_validator"}
ModelInvoked == \E i \in DOMAIN invoked : invoked[i] \in ModelCalls

Returned == phase = "returned"
ReturnedPolicy == Returned /\ ~IsRaise(reply)
NotFound == Returned /\ reply = Raise("PolicyNotFoundError")

\* the step that starts with the repository lookup and ends at the next await
LookupStep(cached) ==
    /\ invoked' = <<"repository.load">>
    /\ rows' = rows
    /\ cached # Nothing =>
          /\ reply' = cached /\ phase' = "returned"
          /\ opened' = <<>>
    /\ phase' = "store_file" =>
          /\ cached = Nothing /\ files.json # None
          /\ Len(opened') = 1 /\ opened'[1].file = files.json
    /\ phase' = "digitalizing" =>
          /\ cached = Nothing /\ files.json = None /\ files.text # None
          /\ Len(opened') = 1 /\ opened'[1].file = files.text
          /\ pc' = "pass1"
    /\ (cached = Nothing /\ files.json = None /\ files.text = None) =>
          /\ reply' = Raise("PolicyNotFoundError") /\ phase' = "returned"
          /\ opened' = <<>>

\* what the steps after the lookup have done once the call has returned a policy
SourceServed ==
    ReturnedPolicy =>
        /\ opened = <<>> => invoked = <<"repository.load">>
        /\ (opened # <<>> /\ opened[1].file = files.json /\ files.json # None) =>
              /\ invoked = <<"repository.load", "repository.store">>
              /\ \E r \in rows : HoldsInFull(r, reply.value)
        /\ (opened # <<>> /\ files.json = None) =>
              invoked = <<"repository.load", "extractor", "validator", "reference_validator",
                          "repository.store">>

\* C21: get_or_digitalize consults the repository row (payer, medication, "latest"), then
\* the pre-digitized JSON file, then the raw text file, a later source only when every
\* earlier one missed: on a repository hit no file is read, no model is invoked and no row
\* is written; on a JSON-file hit the policy is stored and no model is invoked; on a
\* raw-text hit the three passes run; when all three miss the call raises a not-found
\* error and the rows are unchanged.
C21_SourceOrder ==
    /\ [][phase = "lookup" =>
             LookupStep(load(rows, request.payer_name, request.medication_name, "latest"))]_vars
    /\ []SourceServed

\* the first call was served by the raw text file through the three passes, the second
\* call by the row the first one stored
C21_Witness ==
    /\ ReturnedPolicy /\ request.call = 2
    /\ invoked = <<"repository.load">> /\ opened = <<>>
    /\ files.json = None /\ files.text # None
    /\ \E r \in rows : r.id = 1

\* the request carries a payer or medication name with a `/` or a `..`
UnsafeRequest ==
    \E name \in {request.payer_name, request.medication_name} :
        IsSubstr("/", name) \/ IsSubstr("..", name)

\* every file the call opened resolves under the policies root
OpenedInside ==
    \A i \in DOMAIN opened :
        /\ opened[i].file.inside
        /\ ~IsSubstr("..", opened[i].name)

----------------------------------------------------------------------------
(* evaluate_group, evaluate_policy as functions of their arguments *)

RECURSIVE evaluate_group(_, _, _, _)
\* the GroupEvaluation of one invocation; the subgroups run with the group on the path
\* and every invocation discards its own id before it returns
evaluate_group(group, pol, p, vis) ==
    IF IsVisited(vis, group.group_id) THEN CircularEvaluation(group)
    ELSE LET Resolves(sg_id) == get_group(pol, sg_id) # Nothing
             Nested(found, path) ==
                 [i \in DOMAIN found |->
                     evaluate_group(get_group(pol, found[i]).value, pol, p, path)]
         IN CombinedEvaluation(group, CriteriaResults(pol, p, group),
                               Nested(SelectSeq(group.subgroups, Resolves),
                                      AddVisited(vis, group.group_id)))

evaluate_policy(pol, p) ==
    LET Evaluated(indication, root_group) ==
            MkIndicationEvaluation(indication,
                IF root_group = Nothing THEN None
                ELSE evaluate_group(root_group.value, pol, p, FreshVisited))
        PerIndication(indications) ==
            [i \in DOMAIN indications |->
                Evaluated(indications[i],
                          get_group(pol, indications[i].initial_approval_criteria))]
    IN PolicyEvaluationResult(pol, p, PerIndication(pol.indications))

----------------------------------------------------------------------------
(* PolicyDiffer.diff *)

CriterionChange(criterion_id, change_type, severity) ==
    [criterion_id |-> criterion_id, change_type |-> change_type, severity |-> severity]

\* the fields of a criterion that carry no meaning for the evaluation
NonSemantic == {"name", "description"}

ChangedFields(old_c, new_c) == {f \in DOMAIN old_c : old_c[f] # new_c[f]}

Codes(c) == Range(c.clinical_codes)

\* a threshold moved against its operator: gte raised, lte lowered
Tightened(old_c, new_c) ==
    /\ old_c.threshold_value # None /\ new_c.threshold_value # None
    /\ old_c.threshold_value.t = "num" /\ new_c.threshold_value.t = "num"
    /\ \/ new_c.comparison_operator = <<"gte">>
          /\ new_c.threshold_value.v > old_c.threshold_value.v
       \/ new_c.comparison_operator = <<"lte">>
          /\ new_c.threshold_value.v < old_c.threshold_value.v

ModifiedSeverity(old_c, new_c) ==
    IF ChangedFields(old_c, new_c) \subseteq NonSemantic THEN "minor"
    ELSE IF "threshold_value" \in ChangedFields(old_c, new_c) /\ Tightened(old_c, new_c)
    THEN "breaking"
    ELSE IF ~(Codes(old_c) \subseteq Codes(new_c)) THEN "breaking"
    ELSE "material"

AddedSeverity(new_c) == IF new_c.is_required THEN "breaking" ELSE "material"

AlwaysModified(old_c, new_c) == FALSE
\* two criteria under the same id compare equal
SameCriterion(old_c, new_c) == old_c = new_c

\* the change reported for a criterion id of either policy
ChangeOf(old, new, cid) ==
    IF cid \notin DOMAIN old.atomic_criteria
    THEN CriterionChange(cid, "added", AddedSeverity(new.atomic_criteria[cid]))
    ELSE IF cid \notin DOMAIN new.atomic_criteria
    THEN CriterionChange(cid, "removed", "minor")
    ELSE IF SameCriterion(old.atomic_criteria[cid], new.atomic_criteria[cid])
    THEN CriterionChange(cid, "unchanged", "minor")
    ELSE CriterionChange(cid, "modified",
                         ModifiedSeverity(old.atomic_criteria[cid], new.atomic_criteria[cid]))

RECURSIVE SetToSeq(_)
SetToSeq(S) ==
    IF S = {} THEN <<>>
    ELSE LET x == CHOOSE y \in S : TRUE
         IN <<x>> \o SetToSeq(S \ {x})

WithType(changes, change_type) ==
    LET Is(c) == c.change_type = change_type
    IN Len(SelectSeq(changes, Is))

WithSeverity(changes, severity) ==
    LET Is(c) == c.change_type # "unchanged" /\ c.severity = severity
    IN Len(SelectSeq(changes, Is))

severity_assessment(breaking_changes, material_changes) ==
    IF breaking_changes > 0 THEN "high_impact"
    ELSE IF material_changes > 0 THEN "medium_impact"
    ELSE "low_impact"

DiffSummary(old, new, changes) ==
    [total_criteria_old |-> Cardinality(DOMAIN old.atomic_criteria),
     total_criteria_new |-> Cardinality(DOMAIN new.atomic_criteria),
     added_count |-> WithType(changes, "added"),
     removed_count |-> WithType(changes, "removed"),
     modified_count |-> WithType(changes, "modified"),
     unchanged_count |-> WithType(changes, "unchanged"),
     breaking_changes |-> WithSeverity(changes, "breaking"),
     material_changes |-> WithSeverity(changes, "material"),
     severity_assessment |-> severity_assessment(WithSeverity(changes, "breaking"),
                                                 WithSeverity(changes, "material"))]

\* PolicyDiffer.diff(old, new) for policies that differ in their atomic criteria or version
diff(old, new) ==
    LET Result(changes) ==
            [criterion_changes |-> changes, step_therapy_changes |-> <<>>,
             exclusion_changes |-> <<>>, indication_changes |-> <<>>,
             summary |-> DiffSummary(old, new, changes)]
        Changes(ids) == [i \in DOMAIN ids |-> ChangeOf(old, new, ids[i])]
    IN Result(Changes(SetToSeq(DOMAIN old.atomic_criteria \cup DOMAIN new.atomic_criteria)))

----------------------------------------------------------------------------
(* PolicyImpactAnalyzer.analyze_impact *)

MaxCases == 3   \* longest active_cases list of a call

\* normalize_patient_data on a payload with patient_id, demographics.age and diagnoses
normalize_patient_data(raw_data) ==
    LET demographics == Get(raw_data, "demographics")
        Coded(dx) == "icd10_code" \in DOMAIN dx /\ dx.icd10_code # ""
        coded == SelectSeq(Get(raw_data, "diagnoses"), Coded)
    IN [NormalizedPatientData(IF "patient_id" \in DOMAIN raw_data
                              THEN <<raw_data.patient_id>> ELSE None)
          EXCEPT !.age_years = IF "age" \in DOMAIN demographics /\ demographics.age # 0
                               THEN <<demographics.age>> ELSE None,
                 !.diagnosis_codes = [i \in DOMAIN coded |-> coded[i].icd10_code]]

\* case.get("patient") or case.get("patient_data") or {}
PatientData(case) ==
    IF DOMAIN Get(case, "patient") # {} THEN case.patient ELSE Get(case, "patient_data")

\* the criterion_id -> verdict dict: indication trees in order, then the exclusions; a later
\* entry of an id replaces the earlier one
_collect_all_verdicts(res) ==
    LET Tree(ie) == _collect_all_criteria_evals(ie.approval_criteria_result)
        Flat(evals) ==
            [cid \in {evals[i].criterion_id : i \in DOMAIN evals} |->
                LET last == CHOOSE i \in DOMAIN evals :
                                /\ evals[i].criterion_id = cid
                                /\ \A j \in DOMAIN evals : evals[j].criterion_id = cid => j <= i
                IN evals[last].verdict]
    IN Flat(Concat([i \in DOMAIN res.indication_evaluations |->
                       Tree(res.indication_evaluations[i])])
            \o res.exclusion_evaluations)

\* changed_criterion_ids: the ids of the changes of the three lists that are not unchanged
changed_criterion_ids(d) ==
    LET all_changes == d.criterion_changes \o d.step_therapy_changes \o d.exclusion_changes
    IN {all_changes[i].criterion_id :
           i \in {j \in DOMAIN all_changes : all_changes[j].change_type # "unchanged"}}

\* verdicts.get(cid)
VerdictOf(collected, cid) == IF cid \in DOMAIN collected THEN Just(collected[cid]) ELSE Nothing

\* the ids _find_affected_criteria returns; the list is built looping over a set
AffectedIds(old_result, new_result, d) ==
    LET Differ(old_verdicts, new_verdicts) ==
            {cid \in changed_criterion_ids(d) :
                VerdictOf(old_verdicts, cid) # VerdictOf(new_verdicts, cid)}
    IN Differ(_collect_all_verdicts(old_result), _collect_all_verdicts(new_result))

\* the lists that hold each element of the set once
Orderings(S) == {s \in SeqsUpTo(S, Cardinality(S)) : Len(s) = Cardinality(S) /\ Range(s) = S}

AffectedWhateverVerdict(affected_criteria, new_verdict) == affected_criteria # <<>>
\* elif affected_criteria and new_verdict == CriterionVerdict.INSUFFICIENT_DATA
AffectedAndInsufficient(affected_criteria, new_verdict) ==
    affected_criteria # <<>> /\ new_verdict = INSUFFICIENT_DATA

FlipFromAnything(old_verdict, new_verdict) == old_verdict # new_verdict /\ new_verdict # MET
\* if verdict_changed and old_verdict == MET and new_verdict != MET
FlipFromMet(old_verdict, new_verdict) ==
    old_verdict # new_verdict /\ old_verdict = MET /\ new_verdict # MET

\* the if / elif / elif / else that classifies a case
risk_level(old_verdict, new_verdict, affected_criteria) ==
    IF FlipFromMet(old_verdict, new_verdict) THEN "verdict_flip"
    ELSE IF old_verdict # new_verdict /\ new_verdict = NOT_MET
            /\ old_verdict = INSUFFICIENT_DATA
    THEN "at_risk"
    ELSE IF AffectedAndInsufficient(affected_criteria, new_verdict) THEN "at_risk"
    ELSE "no_impact"

PatientImpact(case, patient_data, old_verdict, new_verdict, affected_criteria) ==
    [patient_id |-> IF "patient_id" \in DOMAIN patient_data THEN patient_data.patient_id
                    ELSE IF "case_id" \in DOMAIN case /\ case.case_id # "" THEN case.case_id
                    ELSE "unknown",
     case_id |-> Get(case, "case_id"),
     current_verdict |-> old_verdict,
     projected_verdict |-> new_verdict,
     verdict_changed |-> old_verdict # new_verdict,
     affected_criteria |-> affected_criteria,
     risk_level |-> risk_level(old_verdict, new_verdict, affected_criteria)]

ImpactedOrNot(impacts) == Len(impacts)
\* impacted = sum(1 for p in patient_impacts if p.risk_level != "no_impact")
Impacted(impacts) ==
    LET Is(p) == p.risk_level # "no_impact"
    IN Len(SelectSeq(impacts, Is))

action_items(flips, risk, breaking_changes) ==
    (IF flips > 0 THEN <<<<"URGENT", flips>>>> ELSE <<>>)
    \o (IF risk > 0 THEN <<<<"WARNING", risk>>>> ELSE <<>>)
    \o (IF breaking_changes > 0 THEN <<<<"Review", breaking_changes>>>> ELSE <<>>)

PolicyImpactReport ==
    [diff |-> analysis.diff,
     total_active_cases |-> evaluated_count,
     impacted_cases |-> Impacted(patient_impacts),
     verdict_flips |-> verdict_flips,
     at_risk_cases |-> at_risk,
     patient_impacts |-> patient_impacts,
     action_items |-> action_items(verdict_flips, at_risk,
                                   analysis.diff.summary.breaking_changes)]

InLoop == pc = "analyze" /\ case_index <= Len(analysis.active_cases)

\* for case in active_cases: if not patient_data: continue
SkipCase ==
    /\ InLoop
    /\ DOMAIN PatientData(analysis.active_cases[case_index]) = {}
    /\ case_index' = case_index + 1
    /\ UNCHANGED <<combineVars, criterionVars, machineVars, stepVars, repoVars, pipeVars,
                   sessVars, getVars, gatewayVars, analysis, patient_impacts, verdict_flips,
                   at_risk, evaluated_count, report>>

\* for case in active_cases: both evaluations, the classification, the append
EvaluateCase ==
    /\ InLoop
    /\ DOMAIN PatientData(analysis.active_cases[case_index]) # {}
    /\ LET Appended(impact) ==
               /\ patient_impacts' = Append(patient_impacts, impact)
               /\ verdict_flips' = verdict_flips + (IF impact.risk_level = "verdict_flip"
                                                    THEN 1 ELSE 0)
               /\ at_risk' = at_risk + (IF impact.risk_level = "at_risk" THEN 1 ELSE 0)
           Compared(case, patient_data, old_result, new_result) ==
               \E affected_criteria \in
                       Orderings(AffectedIds(old_result, new_result, analysis.diff)) :
                   Appended(PatientImpact(case, patient_data, old_result.overall_verdict,
                                          new_result.overall_verdict, affected_criteria))
           Evaluated(case, patient_data, normalized) ==
               Compared(case, patient_data, evaluate_policy(analysis.old_policy, normalized),
                        evaluate_policy(analysis.new_policy, normalized))
           Normalized(case, patient_data) ==
               Evaluated(case, patient_data, normalize_patient_data(patient_data))
           Taken(case) == Normalized(case, PatientData(case))
       IN Taken(analysis.active_cases[case_index])
    /\ evaluated_count' = evaluated_count + 1
    /\ case_index' = case_index + 1
    /\ UNCHANGED <<combineVars, criterionVars, machineVars, stepVars, repoVars, pipeVars,
                   sessVars, getVars, gatewayVars, analysis, report>>

\* after the loop: impacted, action_items, the report
ReturnReport ==
    /\ pc = "analyze"
    /\ case_index > Len(analysis.active_cases)
    /\ report' = PolicyImpactReport
    /\ pc' = "done"
    /\ UNCHANGED <<combineVars, criterionVars, patient, policy, steps, groupVars, policyVars,
                   stepVars, repoVars, pipeVars, sessVars, getVars, gatewayVars, analysis,
                   case_index, patient_impacts, verdict_flips, at_risk, evaluated_count>>

----------------------------------------------------------------------------
(* Inputs of analyze_impact: the policies of tests/test_policy_differ.py and their cases *)

AgeTest(age_threshold) ==
    [AtomicCriterion("AGE_TEST", "age", "Age Requirement", <<"Age threshold">>)
        EXCEPT !.threshold_value = Num(age_threshold), !.comparison_operator = <<"gte">>]

DiagTest ==
    [AtomicCriterion("DIAG_TEST", "diagnosis_confirmed", "Diagnosis Required",
                     <<"Confirmed diagnosis">>)
        EXCEPT !.clinical_codes = <<[system |-> "ICD-10", code |-> "K50.10"]>>]

DocTest ==
    [AtomicCriterion("DOC_TEST", "documentation_present", "Chart notes", <<"Notes">>)
        EXCEPT !.is_required = FALSE]

\* _make_policy(version, age_threshold, extra_criteria): one AND group over all criteria
_make_policy(version, age_threshold, extra_criteria) ==
    LET listed == <<AgeTest(age_threshold), DiagTest>> \o extra_criteria
    IN [policy_id |-> "TEST", payer_name |-> "TestPayer", medication_name |-> "TestDrug",
        version |-> version,
        atomic_criteria |->
            [cid \in {listed[i].criterion_id : i \in DOMAIN listed} |->
                listed[CHOOSE i \in DOMAIN listed : listed[i].criterion_id = cid]],
        criterion_groups |->
            [g \in {"GRP_INITIAL"} |->
                CriterionGroup("GRP_INITIAL", "AND", FALSE,
                               [i \in DOMAIN listed |-> listed[i].criterion_id], <<>>)],
        indications |-> <<[indication_id |-> "IND_TEST", indication_name |-> "Test Indication",
                           initial_approval_criteria |-> "GRP_INITIAL"]>>,
        exclusions |-> <<>>, step_therapy_requirements |-> <<>>]

ImpactPolicies ==
    {_make_policy("v1", 18, <<>>), _make_policy("v2", 18, <<>>), _make_policy("v2", 21, <<>>),
     _make_policy("v2", 18, <<DocTest>>)}

Payload(patient_id, age, codes) ==
    [patient_id |-> patient_id, demographics |-> [age |-> age],
     diagnoses |-> [i \in DOMAIN codes |-> [icd10_code |-> codes[i]]]]

ImpactCases ==
    {[case_id |-> "case_001", patient_data |-> Payload("patient_001", 20, <<"K50.10">>)],
     [case_id |-> "case_002", patient_data |-> Payload("patient_002", 30, <<"K50.10">>)],
     [case_id |-> "case_003", patient |-> Payload("patient_003", 20, <<>>)],
     [case_id |-> "case_004", patient |-> None,
      patient_data |-> Payload("patient_004", 20, <<"M05.79">>)],
     [case_id |-> "case_005", patient_data |-> None],
     [case_id |-> "case_006"]}

InitImpact ==
    /\ pc = "analyze"
    /\ \E old_policy \in ImpactPolicies, new_policy \in ImpactPolicies,
          active_cases \in SeqsUpTo(ImpactCases, MaxCases) :
           analysis = [diff |-> diff(old_policy, new_policy), old_policy |-> old_policy,
                       new_policy |-> new_policy, active_cases |-> active_cases]
    /\ case_index = 1 /\ patient_impacts = <<>> /\ verdict_flips = 0 /\ at_risk = 0
    /\ evaluated_count = 0 /\ report = None
    /\ patient = EmptyPatient /\ policy = None
    /\ IdleCombine /\ IdleCriterion /\ IdleGroup /\ IdlePolicy /\ IdleStep /\ IdleRepository
    /\ IdlePipeline /\ IdleSessions /\ IdleGet /\ IdleGateway

NextImpact == SkipCase \/ EvaluateCase \/ ReturnReport

SpecImpact == InitImpact /\ [][NextImpact]_vars

----------------------------------------------------------------------------
(* Properties of analyze_impact *)

Evaluable(case) == DOMAIN PatientData(case) # {}

\* the cases the loop has evaluated so far, in list order
EvaluatedCases == SelectSeq(SubSeq(analysis.active_cases, 1, case_index - 1), Evaluable)

VerdictUnder(pol, case) ==
    evaluate_policy(pol, normalize_patient_data(PatientData(case))).overall_verdict

OldVerdict(case) == VerdictUnder(analysis.old_policy, case)
NewVerdict(case) == VerdictUnder(analysis.new_policy, case)

MetThenNotMet(case) == OldVerdict(case) = MET /\ NewVerdict(case) # MET

\* the new policy is the old one with the age threshold raised from 18 to 21
OnlyAgeRaised ==
    /\ analysis.old_policy \in {_make_policy("v1", 18, <<>>), _make_policy("v2", 18, <<>>)}
    /\ analysis.new_policy = _make_policy("v2", 21, <<>>)

AgeOf(case) == PatientData(case).demographics.age

RiskOf(i) == patient_impacts[i].risk_level

\* C23: analyze_impact classifies a case as verdict_flip exactly when its overall verdict
\* is MET under the old policy and not MET under the new one, report.verdict_flips is the
\* number of those cases, and with only the age threshold raised from 18 to 21 a patient
\* aged 20 who met under the old policy is a verdict_flip and a patient aged 30 is no_impact.
C23_VerdictFlip ==
    /\ Len(patient_impacts) = Len(EvaluatedCases)
    /\ \A i \in DOMAIN patient_impacts :
          /\ RiskOf(i) = "verdict_flip" <=> MetThenNotMet(EvaluatedCases[i])
          /\ OnlyAgeRaised /\ AgeOf(EvaluatedCases[i]) = 30 => RiskOf(i) = "no_impact"
          /\ OnlyAgeRaised /\ AgeOf(EvaluatedCases[i]) = 20
                /\ OldVerdict(EvaluatedCases[i]) = MET => RiskOf(i) = "verdict_flip"
    /\ report # None =>
          report.verdict_flips = Len(SelectSeq(EvaluatedCases, MetThenNotMet))

\* a report on the raised threshold with a flipped case, an unaffected patient aged 30 and a
\* case that turned from insufficient data to not met
C23_Witness ==
    /\ report # None /\ OnlyAgeRaised /\ report.verdict_flips = 1
    /\ \E i, j, k \in DOMAIN patient_impacts :
          /\ RiskOf(i) = "verdict_flip" /\ AgeOf(EvaluatedCases[i]) = 20
          /\ RiskOf(j) = "no_impact" /\ AgeOf(EvaluatedCases[j]) = 30
          /\ RiskOf(k) = "at_risk" /\ patient_impacts[k].current_verdict = INSUFFICIENT_DATA

\* the changed criteria whose verdict differs between the two evaluations of the case
ChangedVerdicts(case) ==
    LET Under(normalized) ==
            AffectedIds(evaluate_policy(analysis.old_policy, normalized),
                        evaluate_policy(analysis.new_policy, normalized), analysis.diff)
    IN Under(normalize_patient_data(PatientData(case)))

Deteriorated(case) == OldVerdict(case) = INSUFFICIENT_DATA /\ NewVerdict(case) = NOT_MET

RiskLevels == {"verdict_flip", "at_risk", "no_impact"}

\* a case that is no verdict_flip is at_risk exactly when that holds of it, else no_impact
AtRiskExactlyWhen(Condition(_)) ==
    \A i \in DOMAIN patient_impacts :
        /\ RiskOf(i) \in RiskLevels
        /\ ~MetThenNotMet(EvaluatedCases[i]) =>
              RiskOf(i) = (IF Condition(EvaluatedCases[i]) THEN "at_risk" ELSE "no_impact")

AtRiskAsStated(case) == Deteriorated(case) \/ ChangedVerdicts(case) # {}

AtRiskInCode(case) ==
    \/ Deteriorated(case)
    \/ ChangedVerdicts(case) # {} /\ NewVerdict(case) = INSUFFICIENT_DATA

\* C24 as stated: a case that is no verdict_flip is at_risk exactly when its overall verdict
\* went from INSUFFICIENT_DATA to NOT_MET or a changed criterion has a different verdict in
\* the two evaluations, whatever the new overall verdict is; every other case is no_impact.
C24_AsStated == AtRiskExactlyWhen(AtRiskAsStated)

\* C24: a case that is no verdict_flip is at_risk exactly when its overall verdict went from
\* INSUFFICIENT_DATA to NOT_MET, or its new overall verdict is INSUFFICIENT_DATA and a
\* changed criterion has a different verdict in the two evaluations; every other case is
\* no_impact, each case has exactly one of the three risk levels, and affected_criteria
\* lists the changed criteria whose verdict differs.
C24_AtRisk ==
    /\ AtRiskExactlyWhen(AtRiskInCode)
    /\ \A i \in DOMAIN patient_impacts :
          Range(patient_impacts[i].affected_criteria) = ChangedVerdicts(EvaluatedCases[i])

\* a report with a case at risk through a changed criterion and a case left no_impact
\* although a changed criterion turned, its overall verdict staying NOT_MET
C24_Witness ==
    /\ report # None
    /\ \E i, j \in DOMAIN patient_impacts :
          /\ RiskOf(i) = "at_risk" /\ patient_impacts[i].current_verdict = NOT_MET
          /\ patient_impacts[i].affected_criteria # <<>>
          /\ RiskOf(j) = "no_impact" /\ patient_impacts[j].projected_verdict = NOT_MET
          /\ patient_impacts[j].affected_criteria # <<>>

\* the call compares a policy with itself: diff is diff(p, p)
SamePolicy ==
    /\ analysis.old_policy = analysis.new_policy
    /\ analysis.diff = diff(analysis.old_policy, analysis.old_policy)

\* the case carries a non-empty payload under "patient" or under "patient_data"
HasPayload(case) ==
    \E key \in {"patient", "patient_data"} : key \in DOMAIN case /\ DOMAIN case[key] # {}

\* C25: when old_policy and new_policy are the same policy and diff is diff(p, p), every
\* evaluated case is no_impact with verdict_changed false and no affected criteria, so the
\* report has verdict_flips, at_risk_cases and impacted_cases 0; in every report
\* impacted_cases = verdict_flips + at_risk_cases and total_active_cases = the number of
\* patient_impacts = the number of cases with a non-empty patient payload.
C25_SamePolicyNoImpact ==
    /\ SamePolicy =>
          \A i \in DOMAIN patient_impacts :
              /\ RiskOf(i) = "no_impact"
              /\ ~patient_impacts[i].verdict_changed
              /\ patient_impacts[i].affected_criteria = <<>>
    /\ report # None =>
          /\ SamePolicy => /\ report.verdict_flips = 0 /\ report.at_risk_cases = 0
                           /\ report.impacted_cases = 0
          /\ report.impacted_cases = report.verdict_flips + report.at_risk_cases
          /\ report.total_active_cases = Len(report.patient_impacts)
          /\ report.total_active_cases = Len(SelectSeq(analysis.active_cases, HasPayload))

\* a report of a policy against itself over two evaluated cases and a skipped one
C25_Witness ==
    /\ report # None /\ SamePolicy
    /\ Len(analysis.active_cases) = 3 /\ report.total_active_cases = 2
    /\ \E i \in DOMAIN analysis.active_cases : "patient" \in DOMAIN analysis.active_cases[i]

----------------------------------------------------------------------------
(* PolicyDiffer.diff called on two policies *)

\* DocTest with another name and description, the same in every other field
RenamedDoc == [DocTest EXCEPT !.name = "Clinical notes", !.description = <<"Chart">>]

DiffPolicies ==
    {_make_policy(version, age_threshold, extra_criteria) :
        version \in {"v1", "v2"}, age_threshold \in {18, 21},
        extra_criteria \in {<<>>, <<DocTest>>, <<RenamedDoc>>}}

\* differ.diff(old, new)
Diff ==
    /\ pc = "diff"
    /\ reply' = diff(analysis.old_policy, analysis.new_policy)
    /\ pc' = "done"
    /\ UNCHANGED <<combineVars, criterionVars, patient, policy, steps, groupVars, policyVars,
                   stepVars, rows, clock, stored, pipeVars, sessVars, frontVars>>

InitDiff ==
    /\ pc = "diff"
    /\ \E old_policy \in DiffPolicies, new_policy \in DiffPolicies :
           analysis = [old_policy |-> old_policy, new_policy |-> new_policy]
    /\ case_index = 0 /\ patient_impacts = <<>> /\ verdict_flips = 0 /\ at_risk = 0
    /\ evaluated_count = 0 /\ report = None
    /\ patient = EmptyPatient /\ policy = None
    /\ IdleCombine /\ IdleCriterion /\ IdleGroup /\ IdlePolicy /\ IdleStep /\ IdleRepository
    /\ IdlePipeline /\ IdleSessions /\ IdleGet /\ IdleGateway

NextDiff == Diff

SpecDiff == InitDiff /\ [][NextDiff]_vars

----------------------------------------------------------------------------
(* Properties of diff *)

\* the two policies are the same but for their version label
SameButVersion ==
    [analysis.old_policy EXCEPT !.version = analysis.new_policy.version] = analysis.new_policy

\* C26: diff(p, p), and the diff of two policies that differ only in their version label,
\* reports added_count, removed_count and modified_count 0, no breaking and no material
\* change, severity_assessment low_impact and unchanged_count the number of criteria.
C26_DiffOfSame ==
    pc = "done" /\ SameButVersion =>
        /\ reply.summary.added_count = 0 /\ reply.summary.removed_count = 0
        /\ reply.summary.modified_count = 0
        /\ reply.summary.breaking_changes = 0 /\ reply.summary.material_changes = 0
        /\ reply.summary.severity_assessment = "low_impact"
        /\ reply.summary.unchanged_count = Cardinality(DOMAIN analysis.old_policy.atomic_criteria)

\* the diff of "v1" against "v2" of one policy with three criteria has been computed
C26_Witness ==
    /\ pc = "done" /\ SameButVersion
    /\ analysis.old_policy.version # analysis.new_policy.version
    /\ reply.summary.unchanged_count = 3

----------------------------------------------------------------------------
(* Properties of the order of the passes of digitalize_policy *)

\* the collaborators of a call that runs to its end, in order
ExpectedOrder ==
    <<"extractor">> \o (IF skip_validation THEN <<>> ELSE <<"validator">>)
    \o <<"reference_validator", "repository.store">>

IsPrefix(s, t) == Len(s) <= Len(t) /\ SubSeq(t, 1, Len(s)) = s

\* the passes that ran: the awaited extractor, validator and reference validator
PassesRun == Cardinality({i \in DOMAIN invoked : invoked[i] \in ModelCalls})

PipelineReturned == pc = "done" /\ ~IsRaise(reply)

\* the collaborators are awaited in order, a call that ends before repository.store has
\* raised, and a returned result has stored = true
OrderKept ==
    /\ IsPrefix(invoked, ExpectedOrder)
    /\ pc = "done" /\ invoked # ExpectedOrder => IsRaise(reply)
    /\ PipelineReturned => invoked = ExpectedOrder /\ reply.stored

\* the rows change in no step but the one of repository.store
RowsKeptUntilStore == pc # "store" => rows' = rows

\* C27 as stated: the collaborators are invoked in the order extract, validate (exactly when
\* skip_validation is false), reference-validate, repository.store, store at most once and
\* only after Pass 3 returned; a pass that raises makes the call raise with the repository
\* unchanged; a returned result has stored = true and passes_completed equal to the number
\* of passes that ran, 3 with validation and 2 when Pass 2 was skipped.
C27_AsStated ==
    /\ [](OrderKept /\ (PipelineReturned => reply.passes_completed = PassesRun))
    /\ [][RowsKeptUntilStore]_vars

\* the order, the raise and stored = true hold with the value the code gives passes_completed
PipelineOrderAndThree ==
    /\ [](OrderKept /\ (PipelineReturned => reply.passes_completed = 3))
    /\ [][RowsKeptUntilStore]_vars

\* digitalize_policy returned from a call with skip_validation set: two passes ran
C27_FailingInput ==
    /\ PipelineReturned /\ skip_validation
    /\ invoked = <<"extractor", "reference_validator", "repository.store">>
    /\ PassesRun = 2 /\ reply.passes_completed = 3

----------------------------------------------------------------------------
(* Properties of the columns of a stored row *)

\* the rows filed under the key of a history entry
RowsOf(e) == SelectKey(rows, e.key[1], e.key[2], e.key[3])

\* every column of the row derives from the policy
DerivedFrom(r, policy_dict) ==
    /\ r.parsed_criteria = policy_dict
    /\ r.content_hash = ContentHash(policy_dict)
    /\ r.policy_text = JsonDumps(policy_dict)

\* C28 as stated: after every completed store, on the insert path and on the update path,
\* the row of the key is internally consistent: its content hash, its parsed_criteria and
\* its policy_text all derive from the policy stored last under the key.
C28_AsStated ==
    \A e \in stored : \A r \in RowsOf(e) : DerivedFrom(r, model_dump(e.policy))

\* two stores on one key of an empty table: the row the first store inserted was updated by
\* the second, and its policy_text is still the JSON of the first policy
C28_FailingInput ==
    \E e \in stored : \E r \in RowsOf(e) :
        /\ r.id > 0 /\ r.cached_at > r.id
        /\ r.parsed_criteria = model_dump(e.policy)
        /\ r.content_hash = ContentHash(model_dump(e.policy))
        /\ r.policy_text # JsonDumps(model_dump(e.policy))

----------------------------------------------------------------------------
(* Properties of a second get_or_digitalize with the same arguments *)

\* what repository.load(payer_name, medication_name) of the request gives on the rows
RequestLoad == load(rows, request.payer_name, request.medication_name, "latest")

\* the call before this one returned a policy
FirstReturnedPolicy == request.call = 2 /\ DOMAIN request.first # {} /\ ~IsRaise(request.first)

\* the call was served by the repository: no file opened, no model and no store invoked
ServedFromRepository ==
    ReturnedPolicy /\ opened = <<>> /\ invoked = <<"repository.load">>

\* C29 as stated: after get_or_digitalize(payer, medication) returns a policy the repository
\* holds a row at the normalized (payer, medication, "latest") key of the request, and a call
\* with the same arguments that follows is served from the repository, reading no file and
\* invoking no model, whatever names and version the file or the extracted policy carries.
C29_AsStated ==
    /\ ReturnedPolicy => RequestLoad # Nothing
    /\ FirstReturnedPolicy /\ Returned => ServedFromRepository

\* the pre-digitized file of the request holds a policy filed under another version label:
\* the first call returned it, and the second call has opened the file and stored it again
C29_FailingInput ==
    /\ FirstReturnedPolicy /\ ReturnedPolicy
    /\ request.payer_name = "Blue Cross"
    /\ files.json # None /\ files.json.inside /\ files.json.data = request.first.value
    /\ request.first.value.payer_name = "Blue Cross" /\ request.first.value.version = "v2"
    /\ opened # <<>> /\ invoked = <<"repository.load", "repository.store">>
    /\ RequestLoad = Nothing

----------------------------------------------------------------------------
(* LLMGateway.generate: one step per provider of the routing list *)

CLAUDE == "claude"
GEMINI == "gemini"
AZURE_OPENAI == "azure_openai"
LLMProvider == {CLAUDE, GEMINI, AZURE_OPENAI}

RoutedCategories ==
    {"policy_reasoning", "appeal_strategy", "appeal_drafting", "summary_generation",
     "data_extraction", "notification"}

\* a category that is no key of the routing table
UnroutedCategory == "other"
TaskCategory == RoutedCategories \cup {UnroutedCategory}

TASK_MODEL_ROUTING ==
    [c \in RoutedCategories |->
        IF c \in {"policy_reasoning", "appeal_strategy"} THEN <<CLAUDE>>
        ELSE <<GEMINI, AZURE_OPENAI>>]

\* TASK_MODEL_ROUTING.get(task_category, [GEMINI, AZURE_OPENAI])
RoutedProviders(category) ==
    IF category \in DOMAIN TASK_MODEL_ROUTING THEN TASK_MODEL_ROUTING[category]
    ELSE <<GEMINI, AZURE_OPENAI>>

\* the error class of the client of a provider
ClientError(provider) ==
    CASE provider = CLAUDE -> "ClaudePolicyReasoningError"
      [] provider = GEMINI -> "GeminiError"
      [] provider = AZURE_OPENAI -> "AzureOpenAIError"

\* what a provider call raises: the error of its client, or any other Exception
ProviderErrors(provider) == {ClientError(provider), "Exception"}

\* what a provider call returns: the client's dict
ProviderResults == {[response |-> [text |-> "letter"]], [response |-> [atomic_criteria |-> <<>>]]}

NeverReraised(error) == FALSE
\* except ClaudePolicyReasoningError: raise
Reraised(error) == error = "ClaudePolicyReasoningError"

InProviderLoop ==
    pc = "generate" /\ provider_index <= Len(RoutedProviders(task_category))

Provider == RoutedProviders(task_category)[provider_index]

\* for provider in providers: _call_provider returns; the result is tagged and returned
ProviderReturns ==
    /\ InProviderLoop
    /\ \E result_dict \in ProviderResults :
          reply' = [response |-> result_dict.response, provider |-> Provider,
                    task_category |-> task_category]
    /\ attempts' = Append(attempts, [provider |-> Provider, raised |-> None])
    /\ clients' = clients \cup {Provider}
    /\ pc' = "done"
    /\ UNCHANGED <<combineVars, criterionVars, patient, policy, steps, groupVars, policyVars,
                   stepVars, rows, clock, stored, pipeVars, sessVars, getVars, impactVars,
                   task_category, provider_index, last_error>>

\* for provider in providers: the client's constructor or its call raises; the error of the
\* Claude client is raised again, any other is kept in last_error and the loop continues
ProviderRaises ==
    /\ InProviderLoop
    /\ \E error \in ProviderErrors(Provider) :
          /\ attempts' = Append(attempts, [provider |-> Provider, raised |-> <<error>>])
          /\ IF Reraised(error)
             THEN /\ reply' = Raise(error)
                  /\ pc' = "done"
                  /\ UNCHANGED <<provider_index, last_error>>
             ELSE /\ last_error' = <<error>>
                  /\ provider_index' = provider_index + 1
                  /\ UNCHANGED <<reply, pc>>
          /\ \/ clients' = clients \cup {Provider}
             \/ Provider \notin clients /\ error = "Exception" /\ clients' = clients
    /\ UNCHANGED <<combineVars, criterionVars, patient, policy, steps, groupVars, policyVars,
                   stepVars, rows, clock, stored, pipeVars, sessVars, getVars, impactVars,
                   task_category>>

\* after the loop: raise LLMGatewayError
AllProvidersFailed ==
    /\ pc = "generate" /\ provider_index > Len(RoutedProviders(task_category))
    /\ reply' = Raise("LLMGatewayError")
    /\ pc' = "done"
    /\ UNCHANGED <<combineVars, criterionVars, patient, policy, steps, groupVars, policyVars,
                   stepVars, rows, clock, stored, pipeVars, sessVars, getVars, impactVars,
                   gatewayVars>>

\* a gateway whose clients exist or not, as earlier calls left them
InitGateway ==
    /\ pc = "generate"
    /\ task_category \in TaskCategory
    /\ provider_index = 1 /\ last_error = None /\ attempts = <<>>
    /\ clients \in SUBSET LLMProvider
    /\ patient = EmptyPatient /\ policy = None
    /\ IdleCombine /\ IdleCriterion /\ IdleGroup /\ IdlePolicy /\ IdleStep /\ IdleRepository
    /\ IdlePipeline /\ IdleSessions /\ IdleGet /\ IdleImpact

NextGateway == ProviderReturns \/ ProviderRaises \/ AllProvidersFailed

SpecGateway == InitGateway /\ [][NextGateway]_vars

----------------------------------------------------------------------------
(* Properties of LLMGateway.generate *)

Failed(i) == attempts[i].raised # None

GatewayReturned == pc = "done" /\ ~IsRaise(reply)

ClaudeOnly == task_category \in {"policy_reasoning", "appeal_strategy"}

\* C30: generate invokes only the providers of the routing list of the task category, in
\* list order, each at most once, and returns the first successful result without calling
\* a later provider; for the Claude-only categories Gemini and Azure are never invoked and
\* a ClaudePolicyReasoningError reaches the caller unchanged; for data extraction Azure is
\* invoked only after Gemini failed; LLMGatewayError is raised only after every listed
\* provider has failed.
C30_Routing ==
    /\ IsPrefix([i \in DOMAIN attempts |-> attempts[i].provider],
                RoutedProviders(task_category))
    /\ \A i \in DOMAIN attempts : i < Len(attempts) => Failed(i)
    /\ attempts # <<>> /\ ~Failed(Len(attempts)) =>
          GatewayReturned /\ reply.provider = attempts[Len(attempts)].provider
    /\ GatewayReturned => attempts # <<>> /\ ~Failed(Len(attempts))
    /\ ClaudeOnly =>
          /\ \A i \in DOMAIN attempts : attempts[i].provider = CLAUDE
          /\ \A i \in DOMAIN attempts :
                attempts[i].raised = <<"ClaudePolicyReasoningError">> =>
                    pc = "done" /\ reply = Raise("ClaudePolicyReasoningError")
    /\ task_category = "data_extraction" =>
          \A i \in DOMAIN attempts :
              attempts[i].provider = AZURE_OPENAI =>
                  i > 1 /\ attempts[i - 1].provider = GEMINI /\ Failed(i - 1)
    /\ (pc = "done" /\ reply = Raise("LLMGatewayError")) =>
          /\ Len(attempts) = Len(RoutedProviders(task_category))
          /\ \A i \in DOMAIN attempts : Failed(i)

\* a data extraction answered by Azure after Gemini failed
C30_Witness ==
    /\ task_category = "data_extraction" /\ GatewayReturned
    /\ Len(attempts) = 2 /\ reply.provider = AZURE_OPENAI
    /\ attempts[1] = [provider |-> GEMINI, raised |-> <<"GeminiError">>]

====
